---- MODULE Spec2Model ----
(***************************************************************************)
(* State-machine model of the VIX guest command executor,                  *)
(* open-vm-tools/services/plugins/vix/vixTools.c: the exited-process       *)
(* registry, the impersonation gate, the request decoders, the             *)
(* asynchronous process engine and the command dispatcher.                 *)
(*                                                                         *)
(* One dispatch (VixTools_ProcessVixCommand) is one action: the agent is   *)
(* single threaded and a handler runs to completion.  The calls a handler  *)
(* makes to its collaborators (Auth, ProcMgr, File, Impersonate) are       *)
(* recorded, in order, in lastLog; their answers are inputs of the action. *)
(***************************************************************************)
EXTENDS Integers, Sequences, FiniteSets, TLC

(***************************************************************************)
(* Bounds of the model.                                                    *)
(***************************************************************************)
MaxLaunches == 2      \* launches made in one behaviour
MaxEnvLaunches == 1   \* launches made in one behaviour of the environment
MaxFiles == 3         \* names in a directory
MaxTicks == 2         \* clock advances in one behaviour
MaxData == 3          \* bytes of variable-length data in a request
MaxDeclared == 2      \* largest length a request declares for a field
Epoch == 1000         \* time(NULL) when the agent starts
MaxEntries == 2       \* entries of a registry given to the sweep

(***************************************************************************)
(* Program constants.                                                      *)
(***************************************************************************)
VIX_TOOLS_EXITED_PROGRAM_REAP_TIME == 300
SECONDS_BETWEEN_POLL_TEST_FINISHED == 1

\* Builds of the file (#if defined(_WIN32) / linux / __FreeBSD__).
Platforms == {"linux", "win32", "freebsd"}

\* Pids the guest OS hands out to children, the agent's own pid and its
\* process group.
ChildPids == {7, 8}
SelfPid == 5
SelfPgrp == 4

ExitCodes == {3}

\* userToken values: NULL, PROCESS_CREATOR_USER_TOKEN, or an AuthToken.
TokenNull == "NULL"
PROCESS_CREATOR_USER_TOKEN == "PROCESS_CREATOR_USER_TOKEN"
TokenAuth == "AuthToken"

VIX_OK == "VIX_OK"
VIX_E_FAIL == "VIX_E_FAIL"
VIX_E_INVALID_ARG == "VIX_E_INVALID_ARG"
VIX_E_FILE_NOT_FOUND == "VIX_E_FILE_NOT_FOUND"
VIX_E_NOT_SUPPORTED == "VIX_E_NOT_SUPPORTED"
VIX_E_GUEST_USER_PERMISSIONS == "VIX_E_GUEST_USER_PERMISSIONS"
VIX_E_EMPTY_PASSWORD_NOT_ALLOWED_IN_GUEST == "VIX_E_EMPTY_PASSWORD_NOT_ALLOWED_IN_GUEST"
VIX_E_PROGRAM_NOT_STARTED == "VIX_E_PROGRAM_NOT_STARTED"
VIX_E_NOT_A_DIRECTORY == "VIX_E_NOT_A_DIRECTORY"
VIX_E_INVALID_MESSAGE_BODY == "VIX_E_INVALID_MESSAGE_BODY"
VIX_E_OUT_OF_MEMORY == "VIX_E_OUT_OF_MEMORY"
VIX_E_SYSTEM == "VIX_E_SYSTEM"
VIX_E_ALREADY_EXISTS == "VIX_E_ALREADY_EXISTS"
VIX_E_OBJECT_NOT_FOUND == "VIX_E_OBJECT_NOT_FOUND"
VIX_E_OP_NOT_SUPPORTED_ON_GUEST == "VIX_E_OP_NOT_SUPPORTED_ON_GUEST"
VIX_E_NOT_A_FILE == "VIX_E_NOT_A_FILE"

VARIABLES
  platform,               \* the build
  thisProcessRunsAsRoot,  \* static Bool thisProcessRunsAsRoot
  allowConsoleUserOps,    \* static Bool allowConsoleUserOps
  reportProgramDoneProc,  \* the registered completion sink, or "NULL"
  userEnvironmentTable,   \* static HashTable *userEnvironmentTable, or "NULL"
  environ,                \* the agent's own variables and the table's entries
  listing,                \* the directory the client lists and how it asks
  credential,             \* the credential the client's requests carry
  message,                \* the body the client's requests carry
  now,                    \* time(NULL)
  nticks,                 \* clock advances so far
  exitedProcessList,      \* the registry, head first
  asyncProcs,             \* one record per launch that was started
  doneCalls,              \* invocations of the completion sink, in order
  secContext,             \* OS security context of the agent
  openTokens,             \* AuthTokens opened and not yet closed
  lastOp,                 \* the last step: a handler, a timer callback, an event
  lastErr,                \* its VixError
  lastLog,                \* collaborator calls it made, in order
  lastCalls,              \* its calls of the gate and of the two releases, in order
  lastReq,                \* the request it was given, <<>> when it had none
  lastResult,             \* the result buffer it returned
  lastViews               \* the views into the request it formed, in order

vars == <<platform, thisProcessRunsAsRoot, allowConsoleUserOps,
          reportProgramDoneProc, userEnvironmentTable, environ, listing, credential, message, now, nticks, exitedProcessList, asyncProcs,
          doneCalls, secContext, openTokens, lastOp, lastErr, lastLog, lastCalls,
          lastReq, lastResult, lastViews>>

(***************************************************************************)
(* Credentials.  A credential descriptor is its type plus the answers the  *)
(* collaborators give for it: VixMsg_DeObfuscateNamePassword (deobf),      *)
(* VixToolsDoesUsernameMatchCurrentUser (match), Auth_AuthenticateUser     *)
(* (auth), ProcMgr_ImpersonateUserStart / Impersonate_Do (start), and      *)
(* whether namePasswordStruct->passwordLength <= 0 (pwEmpty).              *)
(***************************************************************************)
CredTypes == {"ROOT", "CONSOLE_USER", "NAMED_INTERACTIVE_USER",
              "NAME_PASSWORD", "NAME_PASSWORD_OBFUSCATED", "OTHER"}

Cred(t, d, m, a, s, e) ==
  [type |-> t, deobf |-> d, match |-> m, auth |-> a, start |-> s, pwEmpty |-> e]

Credentials ==
  {Cred(t, FALSE, FALSE, FALSE, FALSE, FALSE) : t \in {"ROOT", "CONSOLE_USER", "OTHER"}}
  \cup {Cred("NAMED_INTERACTIVE_USER", d, m, FALSE, FALSE, FALSE) :
          d \in BOOLEAN, m \in BOOLEAN}
  \cup {Cred(t, d, FALSE, a, s, e) :
          t \in {"NAME_PASSWORD", "NAME_PASSWORD_OBFUSCATED"},
          d \in BOOLEAN, a \in BOOLEAN, s \in BOOLEAN, e \in BOOLEAN}

IsNamePassword(c) == c.type \in {"NAME_PASSWORD", "NAME_PASSWORD_OBFUSCATED"}

Gate(e, t, l) == [err |-> e, token |-> t, log |-> l]

\* A branch that switches the context to the named identity and asks the
\* identity store afterwards.
ImpersonateBeforeAuthenticating(c) ==
  IF ~c.deobf THEN Gate(VIX_E_FAIL, TokenNull, <<"DeObfuscate">>)
  ELSE IF ~c.auth
    THEN Gate(VIX_E_GUEST_USER_PERMISSIONS, TokenNull,
              <<"DeObfuscate", "ImpersonateStart", "Auth_AuthenticateUser",
                "ImpersonateStop">>)
  ELSE Gate(VIX_OK, TokenAuth,
            <<"DeObfuscate", "ImpersonateStart", "Auth_AuthenticateUser",
              "Auth_Opened">>)

\* The name+password branch of VixToolsImpersonateUserImplEx.
ImpersonateNamePassword(c) ==
  IF ~c.deobf THEN Gate(VIX_E_FAIL, TokenNull, <<"DeObfuscate">>)
  ELSE IF ~c.auth
    THEN Gate(VIX_E_GUEST_USER_PERMISSIONS, TokenNull,
              <<"DeObfuscate", "Auth_AuthenticateUser">>)
  ELSE IF ~c.start
    THEN Gate(VIX_E_GUEST_USER_PERMISSIONS, TokenAuth,
              <<"DeObfuscate", "Auth_AuthenticateUser", "Auth_Opened",
                "ImpersonateStartFailed">>)
  ELSE Gate(VIX_OK, TokenAuth,
            <<"DeObfuscate", "Auth_AuthenticateUser", "Auth_Opened",
              "ImpersonateStart">>)

\* A current-process-owner branch that does not compare the names.
ImpersonateInteractiveAnyName(c, root) ==
  IF root THEN Gate(VIX_E_FAIL, TokenNull, <<>>)
  ELSE IF ~c.deobf THEN Gate(VIX_E_FAIL, TokenNull, <<"DeObfuscate">>)
  ELSE Gate(VIX_OK, PROCESS_CREATOR_USER_TOKEN, <<"DeObfuscate">>)

\* The current-process-owner branch of VixToolsImpersonateUserImplEx.
ImpersonateInteractive(c, root) ==
  IF root THEN Gate(VIX_E_FAIL, TokenNull, <<>>)
  ELSE IF ~c.deobf THEN Gate(VIX_E_FAIL, TokenNull, <<"DeObfuscate">>)
  ELSE IF ~c.match
    THEN Gate(VIX_E_GUEST_USER_PERMISSIONS, TokenNull,
              <<"DeObfuscate", "DoesUsernameMatchCurrentUser">>)
  ELSE Gate(VIX_OK, PROCESS_CREATOR_USER_TOKEN,
            <<"DeObfuscate", "DoesUsernameMatchCurrentUser">>)

\* A gate that honours the system credential whoever runs the agent.
ImpersonateRootUnchecked(c, plat, root, allowConsole) ==
  IF plat = "freebsd" THEN Gate(VIX_E_NOT_SUPPORTED, TokenNull, <<>>)
  ELSE IF c.type = "ROOT"
    THEN Gate(VIX_OK, PROCESS_CREATOR_USER_TOKEN, <<>>)
  ELSE IF c.type = "CONSOLE_USER" /\ (allowConsole \/ ~root)
    THEN Gate(VIX_OK, PROCESS_CREATOR_USER_TOKEN, <<>>)
  ELSE IF c.type = "NAMED_INTERACTIVE_USER"
    THEN ImpersonateInteractive(c, root)
  ELSE IF ~IsNamePassword(c) THEN Gate(VIX_E_NOT_SUPPORTED, TokenNull, <<>>)
  ELSE ImpersonateNamePassword(c)

\* A gate that honours the session owner by the policy alone.
ImpersonateConsoleByPolicyOnly(c, plat, root, allowConsole) ==
  IF plat = "freebsd" THEN Gate(VIX_E_NOT_SUPPORTED, TokenNull, <<>>)
  ELSE IF c.type = "ROOT" /\ root
    THEN Gate(VIX_OK, PROCESS_CREATOR_USER_TOKEN, <<>>)
  ELSE IF c.type = "CONSOLE_USER" /\ allowConsole
    THEN Gate(VIX_OK, PROCESS_CREATOR_USER_TOKEN, <<>>)
  ELSE IF c.type = "NAMED_INTERACTIVE_USER"
    THEN ImpersonateInteractive(c, root)
  ELSE IF ~IsNamePassword(c) THEN Gate(VIX_E_NOT_SUPPORTED, TokenNull, <<>>)
  ELSE ImpersonateNamePassword(c)

\* A gate that takes every kind it does not know for a name and password.
ImpersonateUnknownAsNamePassword(c, plat, root, allowConsole) ==
  IF plat = "freebsd" THEN Gate(VIX_E_NOT_SUPPORTED, TokenNull, <<>>)
  ELSE IF c.type = "ROOT" /\ root
    THEN Gate(VIX_OK, PROCESS_CREATOR_USER_TOKEN, <<>>)
  ELSE IF c.type = "CONSOLE_USER" /\ (allowConsole \/ ~root)
    THEN Gate(VIX_OK, PROCESS_CREATOR_USER_TOKEN, <<>>)
  ELSE IF c.type = "NAMED_INTERACTIVE_USER"
    THEN ImpersonateInteractive(c, root)
  ELSE ImpersonateNamePassword(c)

VixToolsImpersonateUserImplEx(c, plat, root, allowConsole) ==
  IF plat = "freebsd" THEN Gate(VIX_E_NOT_SUPPORTED, TokenNull, <<>>)
  ELSE IF c.type = "ROOT" /\ root
    THEN Gate(VIX_OK, PROCESS_CREATOR_USER_TOKEN, <<>>)
  ELSE IF c.type = "CONSOLE_USER" /\ (allowConsole \/ ~root)
    THEN Gate(VIX_OK, PROCESS_CREATOR_USER_TOKEN, <<>>)
  ELSE IF c.type = "NAMED_INTERACTIVE_USER"
    THEN ImpersonateInteractive(c, root)
  ELSE IF ~IsNamePassword(c) THEN Gate(VIX_E_NOT_SUPPORTED, TokenNull, <<>>)
  ELSE ImpersonateNamePassword(c)

VixToolsImpersonateUser(c, plat, root, allowConsole) ==
  LET r == VixToolsImpersonateUserImplEx(c, plat, root, allowConsole)
      log == <<"VixToolsImpersonateUser">> \o r.log
  IN IF r.err # VIX_OK /\ IsNamePassword(c) /\ plat = "win32" /\ c.pwEmpty
       THEN Gate(VIX_E_EMPTY_PASSWORD_NOT_ALLOWED_IN_GUEST, r.token, log)
       ELSE Gate(r.err, r.token, log)

\* An abort path that leaves the impersonation on.
UnimpersonateNothing(token, plat) == <<>>

VixToolsUnimpersonateUser(token, plat) ==
  IF token # PROCESS_CREATOR_USER_TOKEN /\ plat # "freebsd"
    THEN <<"ImpersonateStop">> ELSE <<>>

VixToolsLogoutUser(token, plat) ==
  IF token = PROCESS_CREATOR_USER_TOKEN THEN <<>>
  ELSE IF plat # "freebsd" /\ token # TokenNull THEN <<"Auth_CloseToken">>
  ELSE <<>>

\* An abort path that logs out only what it impersonated.
HandlerAbortLogoutIfImpersonating(impersonatingVMWareUser, token, plat) ==
  IF impersonatingVMWareUser
    THEN VixToolsUnimpersonateUser(token, plat) \o VixToolsLogoutUser(token, plat)
    ELSE <<>>

\* An abort path that releases the handle before it restores the context.
HandlerAbortLogoutFirst(impersonatingVMWareUser, token, plat) ==
  <<"VixToolsLogoutUser">> \o VixToolsLogoutUser(token, plat)
  \o (IF impersonatingVMWareUser
        THEN <<"VixToolsUnimpersonateUser">> \o VixToolsUnimpersonateUser(token, plat)
        ELSE <<>>)

\* The abort: label every handler ends with.
HandlerAbort(impersonatingVMWareUser, token, plat) ==
  (IF impersonatingVMWareUser
     THEN <<"VixToolsUnimpersonateUser">> \o VixToolsUnimpersonateUser(token, plat)
     ELSE <<>>)
  \o <<"VixToolsLogoutUser">> \o VixToolsLogoutUser(token, plat)

(***************************************************************************)
(* What a sequence of collaborator calls does to the agent's security      *)
(* context and to the number of open AuthTokens.                           *)
(***************************************************************************)
RECURSIVE ContextAfter(_, _)
ContextAfter(ctx, log) ==
  IF log = <<>> THEN ctx
  ELSE ContextAfter(
         CASE Head(log) = "ImpersonateStart" -> "user"
           [] Head(log) = "ImpersonateStop" -> "agent"
           [] Head(log) = "ForcedRoot" -> "agent"
           [] Head(log) = "Impersonate_UnforceRoot" -> "user"
           [] OTHER -> ctx,
         Tail(log))

RECURSIVE CountOf(_, _)
CountOf(ev, log) ==
  IF log = <<>> THEN 0
  ELSE (IF Head(log) = ev THEN 1 ELSE 0) + CountOf(ev, Tail(log))

TokensAfter(n, log) == n + CountOf("Auth_Opened", log) - CountOf("Auth_CloseToken", log)

(***************************************************************************)
(* The exited-process registry.                                            *)
(***************************************************************************)
VixToolsExitedProgramState(n, u, p, st, ec, et, r) ==
  [name |-> n, user |-> u, pid |-> p, startTime |-> st, exitCode |-> ec,
   endTime |-> et, isRunning |-> r]

\* Index of the first entry of list with the given pid, 0 when there is none.
FirstWithPid(list, pid) ==
  IF \E i \in 1..Len(list) : list[i].pid = pid
    THEN CHOOSE i \in 1..Len(list) :
           /\ list[i].pid = pid
           /\ \A j \in 1..(i - 1) : list[j].pid # pid
    ELSE 0

VixToolsFindExitedProgramState(list, pid) == FirstWithPid(list, pid)

\* "Update the 'running' record if necessary": the entry found for the pid
\* of a not-running state takes its exitCode and endTime.
UpdateRunningRecord(e, state) ==
  [e EXCEPT !.exitCode = state.exitCode, !.endTime = state.endTime]

\* A test that tosses the record that is exactly the reap time old.
IsOldRecordInclusive(e, t) ==
  ~e.isRunning /\ e.endTime <= t - VIX_TOOLS_EXITED_PROGRAM_REAP_TIME

\* A test that goes by age alone.
IsOldRecordByAge(e, t) ==
  e.endTime < t - VIX_TOOLS_EXITED_PROGRAM_REAP_TIME

\* A sweep that, having unlinked a record, steps over the one behind it.
RECURSIVE TossSkippingAfterRemoval(_, _)
TossSkippingAfterRemoval(list, t) ==
  IF list = <<>> THEN <<>>
  ELSE IF ~list[1].isRunning
          /\ list[1].endTime < t - VIX_TOOLS_EXITED_PROGRAM_REAP_TIME
    THEN (IF Len(list) > 1 THEN <<list[2]>> ELSE <<>>)
         \o TossSkippingAfterRemoval(SubSeq(list, 3, Len(list)), t)
  ELSE <<list[1]>> \o TossSkippingAfterRemoval(Tail(list), t)

\* "Find and toss any old records."
IsOldRecord(e, t) ==
  ~e.isRunning /\ e.endTime < t - VIX_TOOLS_EXITED_PROGRAM_REAP_TIME

TossOldRecords(list, t) == SelectSeq(list, LAMBDA e : ~IsOldRecord(e, t))

\* An update that links the new record in front of the retained entries.
UpdateExitedProgramListAtHead(list, state, t) ==
  LET i == IF state # <<>> /\ ~state[1].isRunning
             THEN FirstWithPid(list, state[1].pid) ELSE 0
      updated == IF i = 0 THEN list
                 ELSE [list EXCEPT ![i] = UpdateRunningRecord(list[i], state[1])]
      rest == IF i = 0 THEN state ELSE <<>>
  IN rest \o TossOldRecords(updated, t)

\* state is <<>> (NULL) or <<s>>; t is time(NULL).
VixToolsUpdateExitedProgramList(list, state, t) ==
  LET i == IF state # <<>> /\ ~state[1].isRunning
             THEN FirstWithPid(list, state[1].pid) ELSE 0
      updated == IF i = 0 THEN list
                 ELSE [list EXCEPT ![i] = UpdateRunningRecord(list[i], state[1])]
      rest == IF i = 0 THEN state ELSE <<>>
  IN TossOldRecords(updated, t) \o rest

(***************************************************************************)
(* Requests.  A request's variable-length region is data, a sequence of    *)
(* bytes (0 is the terminator, 1 any other character) that ends where      *)
(* headerLength + bodyLength ends; l1, l2, l3 are the lengths its fixed    *)
(* struct declares, in the order the handler uses them, and l4 is          *)
(* propertyListLength.  What lies behind data                              *)
(* (the credential, then memory that is not the message) reads as wild.    *)
(***************************************************************************)
Request(d, a, b, c, e) == [data |-> d, l1 |-> a, l2 |-> b, l3 |-> c, l4 |-> e]

Byte(req, off, wild) == IF off < Len(req.data) THEN req.data[off + 1] ELSE wild

Beyond(req, off) == off >= Len(req.data)

View(field, off) == [field |-> field, off |-> off]

\* The views VixTools_StartProgram forms (778-800): programPath, then
\* arguments and workingDir when their declared length is positive.
StartProgramViews(req) ==
  <<View("programPath", 0)>>
  \o (IF req.l2 > 0 THEN <<View("arguments", req.l1)>> ELSE <<>>)
  \o (IF req.l3 > 0
        THEN <<View("workingDir", req.l1 + (IF req.l2 > 0 THEN req.l2 ELSE 0))>>
        ELSE <<>>)

\* The views VixTools_RunProgram forms (688-698).
RunProgramViews(req) ==
  <<View("commandLine", 0)>>
  \o (IF req.l2 > 0 THEN <<View("commandLineArgs", req.l1 + 1)>> ELSE <<>>)

\* The views VixToolsRunScript forms (4226-4229).
RunScriptViews(req) ==
  <<View("interpreterName", 0),
    View("propertiesString", req.l1 + 1),
    View("script", req.l1 + 1 + req.l2 + 1)>>

\* The views VixToolsMoveObject forms (2863-2872).
MoveObjectViews(req) ==
  <<View("srcFilePathName", 0), View("destFilePathName", req.l1 + 1)>>

\* The views VixToolsListFiles forms (3583-3588).
ListFilesViews(req) ==
  <<View("dirPathName", 0)>>
  \o (IF req.l2 > 0 THEN <<View("pattern", req.l1 + 1)>> ELSE <<>>)

(***************************************************************************)
(* The asynchronous process engine.                                        *)
(***************************************************************************)
Outcome(e, p, l) == [err |-> e, pid |-> p, log |-> l]

\* The environment ProcMgr_ExecAsync is handed in procArgs: "NULL" when the
\* child inherits the agent's own, "originalEnvp" when it is the contents of
\* the table, "envVars" when it is the list the request carries.
VixToolsEnvironmentTableToEnvp(envTable) == envTable

\* The environment of a fire-and-report launch and of a script: the table's
\* where the build has one (procArgs is zeroed and left so on win32).
RunProgramEnvp(plat, envTable) ==
  IF plat = "win32" THEN "NULL" ELSE VixToolsEnvironmentTableToEnvp(envTable)

\* The environment of a tracked launch: the request's list, on every build
\* (procArgs.envp = envVars, procArgs.lpEnvironment = envVars).
StartProgramEnvp == "envVars"

\* Children whose ProcMgr_AsyncProc is still held: their pids are taken.
HeldPids(procs) == {procs[i].pid : i \in {j \in 1..Len(procs) : procs[j].freed = 0}}

FreePids(procs) == ChildPids \ HeldPids(procs)

\* A ProcMgr_ExecAsync whose answer is taken for a handle though no process
\* was created.
ExecAsyncHandleWithoutProcess(token, plat, free) ==
  {[pid |-> p, log |-> <<"ProcMgr_ExecAsync">>] : p \in free \cup {0}}

\* ProcMgr_ExecAsync and, on win32, the Impersonate_ForceRoot around it.
\* The pid is 0 when no process was created (procState == NULL).
ExecAsync(token, plat, free) ==
  LET forcedRoot == IF plat = "win32" /\ token # PROCESS_CREATOR_USER_TOKEN
                      THEN BOOLEAN ELSE {FALSE}
  IN {[pid |-> p,
       log |-> (IF plat = "win32" /\ token # PROCESS_CREATOR_USER_TOKEN
                  THEN <<"Impersonate_ForceRoot">> ELSE <<>>)
               \o (IF f THEN <<"ForcedRoot">> ELSE <<>>)
               \o (IF p = 0 THEN <<"ProcMgr_ExecAsync">>
                            ELSE <<"ProcMgr_ExecAsync", "ProcessCreated">>)
               \o (IF f THEN <<"Impersonate_UnforceRoot">> ELSE <<>>)] :
        p \in free \cup {0}, f \in forcedRoot}

ProgramChecks == <<"File_Exists", "FileIO_Access">>

\* Checks that look at FileIO_Access before File_Exists: a program that
\* does not exist is reported as one that may not be executed.
ProgramCheckFailuresAccessFirst ==
  {Outcome(VIX_E_GUEST_USER_PERMISSIONS, -1, ProgramChecks \o <<"ProgramMissing">>),
   Outcome(VIX_E_GUEST_USER_PERMISSIONS, -1, ProgramChecks \o <<"ProgramNotExecutable">>)}

\* The launch of a program that does not exist (!programExists), or that
\* exists and may not be executed (!programIsExecutable).
ProgramCheckFailures ==
  {Outcome(VIX_E_FILE_NOT_FOUND, -1, ProgramChecks \o <<"ProgramMissing">>),
   Outcome(VIX_E_GUEST_USER_PERMISSIONS, -1, ProgramChecks \o <<"ProgramNotExecutable">>)}

VixToolsRunProgramImpl(token, plat, free) ==
  ProgramCheckFailures
  \cup {Outcome(VIX_E_OUT_OF_MEMORY, -1, ProgramChecks)}
  \cup {IF e.pid = 0
          THEN Outcome(VIX_E_PROGRAM_NOT_STARTED, -1,
                       ProgramChecks \o e.log \o <<"VixToolsFreeRunProgramState">>)
          ELSE Outcome(VIX_OK, e.pid, ProgramChecks \o e.log \o <<"g_source_attach">>) :
        e \in ExecAsync(token, plat, free)}

\* workingDir is TRUE when the request names a working directory.
VixToolsStartProgramImpl(workingDir, token, plat, free) ==
  ProgramCheckFailures
  \cup (IF workingDir
          THEN {Outcome(VIX_E_NOT_A_DIRECTORY, -1,
                        ProgramChecks \o <<"File_IsDirectory", "WorkingDirNotADirectory">>)}
          ELSE {})
  \cup {Outcome(VIX_E_OUT_OF_MEMORY, -1,
                ProgramChecks \o (IF workingDir THEN <<"File_IsDirectory">> ELSE <<>>))}
  \cup {LET pre == ProgramChecks \o (IF workingDir THEN <<"File_IsDirectory">> ELSE <<>>)
        IN IF e.pid = 0
             THEN Outcome(VIX_E_PROGRAM_NOT_STARTED, -1,
                          pre \o e.log \o <<"VixToolsFreeStartProgramState">>)
             ELSE Outcome(VIX_OK, e.pid, pre \o e.log \o <<"g_source_attach">>) :
        e \in ExecAsync(token, plat, free)}

\* The names and values of the environment variables a client writes.
EnvNames == {"PATH", "LD_LIBRARY_PATH"}
EnvValues == {"", "new"}

\* One string of an envp array: "<key>=<value>".
VixToolsEnvironmentTableEntryToEnvpEntry(key, value) == <<key, "=", value>>

\* The strings of the array VixToolsEnvironmentTableToEnvp builds from the
\* entries of a table, one for each entry.
EnvpStrings(entries) ==
  {VixToolsEnvironmentTableEntryToEnvpEntry(k, entries[k]) : k \in DOMAIN entries}

\* The entries VixToolsBuildUserEnvironmentTable loads from an array: each
\* string split at its "=".
TableEntries(envp) ==
  [k \in {e[1] : e \in envp} |-> (CHOOSE e \in envp : e[1] = k)[3]]

EmptyTable == [k \in {} |-> ""]

HashTable_ReplaceOrInsert(entries, key, value) ==
  [k \in DOMAIN entries \cup {key} |-> IF k = key THEN value ELSE entries[k]]

\* The array the agent was started with, and the variables of the agent's
\* own process, which the application it runs in has changed.
OriginalEnvp == {VixToolsEnvironmentTableEntryToEnvpEntry("PATH", "user")}
AgentEnviron == [k \in {"PATH"} |-> "agent"]

\* The strings of procArgs.envp when the array was built from the table.
ProcArgsEnvp(envp) ==
  IF envp \in {"NULL", StartProgramEnvp} THEN {} ELSE EnvpStrings(environ.table)

\* The record of one launch that was started.
AsyncState(flavor, pid, name, returnImmediately, script, envp) ==
  [flavor |-> flavor, pid |-> pid, requestName |-> name,
   returnImmediately |-> returnImmediately, tempScript |-> script, envp |-> envp,
   envpStrings |-> ProcArgsEnvp(envp),
   running |-> TRUE, normalExit |-> FALSE, exitStatus |-> 0,
   timers |-> 1, freed |-> 0, exitCodeCalls |-> 0]

\* The calls a handler makes of the gate and of the two releases; the rest
\* of what it does are the calls of its collaborators.
GateCalls == {"VixToolsImpersonateUser", "VixToolsUnimpersonateUser", "VixToolsLogoutUser"}

\* What every dispatch leaves behind.
Decoded(op, req, err, log, result, views) ==
  /\ lastViews' = views
  /\ lastOp' = op
  /\ lastReq' = req
  /\ lastErr' = err
  /\ lastLog' = SelectSeq(log, LAMBDA e : e \notin GateCalls)
  /\ lastCalls' = SelectSeq(log, LAMBDA e : e \in GateCalls)
  /\ lastResult' = result
  /\ secContext' = ContextAfter(secContext, log)
  /\ openTokens' = TokensAfter(openTokens, log)

Returns(op, req, err, log, result) == Decoded(op, req, err, log, result, <<>>)

\* What a step that is not a dispatch leaves behind.
Step(op, log) == Decoded(op, <<>>, VIX_OK, log, "", <<>>)

GateOf(cred) ==
  VixToolsImpersonateUser(cred, platform, thisProcessRunsAsRoot, allowConsoleUserOps)

\* The pid a handler prints when it never assigned its local (int64 pid;
\* in VixTools_RunProgram): any value, the one an assignment would have
\* given or another.
UninitializedPids == {-1, 7}

setup == <<platform, thisProcessRunsAsRoot, allowConsoleUserOps, reportProgramDoneProc,
          userEnvironmentTable, listing, credential, message>>
config == <<setup, environ>>
clock == <<now, nticks>>
engine == <<exitedProcessList, asyncProcs, doneCalls>>

\* The pids the guest OS can give a new child: none once MaxLaunches
\* launches were started.
Available == IF Len(asyncProcs) < MaxLaunches THEN FreePids(asyncProcs) ELSE {}

LaunchReq(cred, req, name, returnImmediately, runAsLocalSystem) ==
  [cred |-> cred, req |-> req, name |-> name,
   returnImmediately |-> returnImmediately, runAsLocalSystem |-> runAsLocalSystem]

(***************************************************************************)
(* VixTools_StartProgram (758-854): the tracked launch.                    *)
(***************************************************************************)
VixTools_StartProgram(req, cred, name, wild, free) ==
  LET v == StartProgramViews(req)
      g == GateOf(cred)
      rq == LaunchReq(cred, req, name, FALSE, FALSE)
  IN /\ UNCHANGED <<config, clock, doneCalls>>
     /\ IF Byte(req, 0, wild) = 0
          THEN /\ Decoded("StartProgram", rq, VIX_E_INVALID_ARG,
                          HandlerAbort(FALSE, TokenNull, platform), -1, <<v[1]>>)
               /\ UNCHANGED <<exitedProcessList, asyncProcs>>
        ELSE IF g.err # VIX_OK
          THEN /\ Decoded("StartProgram", rq, g.err,
                          g.log \o HandlerAbort(FALSE, g.token, platform), -1, v)
               /\ UNCHANGED <<exitedProcessList, asyncProcs>>
        ELSE \E o \in VixToolsStartProgramImpl(req.l3 > 0, g.token,
                                               platform, free) :
               /\ Decoded("StartProgram", rq, o.err,
                          g.log \o o.log \o HandlerAbort(TRUE, g.token, platform),
                          o.pid, v)
               /\ IF o.err = VIX_OK
                    THEN /\ asyncProcs' = Append(asyncProcs,
                               AsyncState("start", o.pid, name, FALSE, "none",
                                          StartProgramEnvp))
                         /\ exitedProcessList' =
                              VixToolsUpdateExitedProgramList(
                                exitedProcessList,
                                <<VixToolsExitedProgramState(
                                    "programPath", "XXX TBD XXX", o.pid, now, 0, 0, TRUE)>>,
                                now)
                    ELSE UNCHANGED <<exitedProcessList, asyncProcs>>

\* A launch that waits for the program to end and reports it before it
\* returns.
RunProgramWaitingForExit(req, cred, name, returnImmediately, runAsLocalSystem, isAdmin, wild, garbage, free) ==
  LET v == RunProgramViews(req)
      g == GateOf(cred)
      rq == LaunchReq(cred, req, name, returnImmediately, runAsLocalSystem)
      asSystem == platform = "win32" /\ runAsLocalSystem
      token == IF asSystem THEN PROCESS_CREATOR_USER_TOKEN ELSE g.token
      glog == IF asSystem THEN <<"VixToolsUserIsMemberOfAdministratorGroup">>
              ELSE g.log
  IN /\ UNCHANGED <<config, clock, exitedProcessList>>
     /\ IF Byte(req, 0, wild) = 0
          THEN /\ Decoded("RunProgram", rq, VIX_E_INVALID_ARG,
                          HandlerAbort(FALSE, TokenNull, platform), garbage, <<v[1]>>)
               /\ UNCHANGED <<asyncProcs, doneCalls>>
        ELSE IF asSystem /\ ~isAdmin
          THEN /\ Decoded("RunProgram", rq, VIX_E_GUEST_USER_PERMISSIONS,
                          glog \o HandlerAbort(FALSE, TokenNull, platform), garbage, v)
               /\ UNCHANGED <<asyncProcs, doneCalls>>
        ELSE IF ~asSystem /\ g.err # VIX_OK
          THEN /\ Decoded("RunProgram", rq, g.err,
                          g.log \o HandlerAbort(FALSE, g.token, platform), garbage, v)
               /\ UNCHANGED <<asyncProcs, doneCalls>>
        ELSE \E o \in VixToolsRunProgramImpl(token, platform, free) :
               /\ Decoded("RunProgram", rq, o.err,
                          glog \o o.log \o HandlerAbort(~asSystem, token, platform),
                          o.pid, v)
               /\ IF o.err = VIX_OK
                    THEN /\ asyncProcs' = Append(asyncProcs,
                              [AsyncState("run", o.pid, name, returnImmediately, "none",
                                          RunProgramEnvp(platform, userEnvironmentTable))
                                 EXCEPT !.running = FALSE, !.normalExit = TRUE,
                                        !.timers = 0, !.freed = 1, !.exitCodeCalls = 1])
                         /\ doneCalls' = Append(doneCalls,
                              [sink |-> reportProgramDoneProc, requestName |-> name,
                               err |-> VIX_OK, exitCode |-> 0, pid |-> o.pid])
                    ELSE UNCHANGED <<asyncProcs, doneCalls>>

(***************************************************************************)
(* VixTools_RunProgram (672-736): the fire-and-report launch.              *)
(***************************************************************************)
VixTools_RunProgram(req, cred, name, returnImmediately, runAsLocalSystem, isAdmin, wild, garbage, free) ==
  LET v == RunProgramViews(req)
      g == GateOf(cred)
      rq == LaunchReq(cred, req, name, returnImmediately, runAsLocalSystem)
      asSystem == platform = "win32" /\ runAsLocalSystem
      token == IF asSystem THEN PROCESS_CREATOR_USER_TOKEN ELSE g.token
      glog == IF asSystem THEN <<"VixToolsUserIsMemberOfAdministratorGroup">>
              ELSE g.log
  IN /\ UNCHANGED <<config, clock, exitedProcessList, doneCalls>>
     /\ IF Byte(req, 0, wild) = 0
          THEN /\ Decoded("RunProgram", rq, VIX_E_INVALID_ARG,
                          HandlerAbort(FALSE, TokenNull, platform), garbage, <<v[1]>>)
               /\ UNCHANGED asyncProcs
        ELSE IF asSystem /\ ~isAdmin
          THEN /\ Decoded("RunProgram", rq, VIX_E_GUEST_USER_PERMISSIONS,
                          glog \o HandlerAbort(FALSE, TokenNull, platform), garbage, v)
               /\ UNCHANGED asyncProcs
        ELSE IF ~asSystem /\ g.err # VIX_OK
          THEN /\ Decoded("RunProgram", rq, g.err,
                          g.log \o HandlerAbort(FALSE, g.token, platform), garbage, v)
               /\ UNCHANGED asyncProcs
        ELSE \E o \in VixToolsRunProgramImpl(token, platform, free) :
               /\ Decoded("RunProgram", rq, o.err,
                          glog \o o.log \o HandlerAbort(~asSystem, token, platform),
                          o.pid, v)
               /\ IF o.err = VIX_OK
                    THEN asyncProcs' = Append(asyncProcs,
                           AsyncState("run", o.pid, name, returnImmediately, "none",
                                      RunProgramEnvp(platform, userEnvironmentTable)))
                    ELSE UNCHANGED asyncProcs

(***************************************************************************)
(* VixToolsRunScript (4194-4456).  The script is written to a temporary    *)
(* file that the launch record owns once the record exists.                *)
(***************************************************************************)
\* The steps from the interpreter checks to the timer, given that the
\* interpreter name is (or, on linux, was defaulted to) a non-empty string.
RunScriptSteps(interpreter, token, plat, free) ==
  LET checks == IF interpreter THEN ProgramChecks ELSE <<>>
      tmpdir == checks \o (IF plat = "win32" /\ token # PROCESS_CREATOR_USER_TOKEN
                             THEN <<"VixToolsGetUserTmpDir">> ELSE <<>>)
      opened == tmpdir \o <<"File_GetTmpDir", "Posix_Open", "TempFileCreated">>
      created == opened \o <<"write">>
  IN (IF interpreter
        THEN {Outcome(VIX_E_FILE_NOT_FOUND, -1, checks),
              Outcome(VIX_E_GUEST_USER_PERMISSIONS, -1, checks)}
        ELSE {})
     \cup {Outcome(VIX_E_SYSTEM, -1, tmpdir \o <<"File_GetTmpDir">>),
           Outcome(VIX_E_SYSTEM, -1, tmpdir \o <<"File_GetTmpDir", "Posix_Open">>),
           Outcome(VIX_E_SYSTEM, -1, opened \o <<"writeFailed", "close">>),
           Outcome(VIX_E_SYSTEM, -1, created \o <<"closeFailed">>),
           Outcome(VIX_E_OUT_OF_MEMORY, -1, created \o <<"close", "Str_Asprintf">>)}
     \cup {IF e.pid = 0
             THEN Outcome(VIX_E_PROGRAM_NOT_STARTED, -1,
                          created \o <<"close">> \o e.log)
             ELSE Outcome(VIX_OK, e.pid,
                          created \o <<"close">> \o e.log \o <<"g_source_attach">>) :
           e \in ExecAsync(token, plat, free)}

VixToolsRunScript(req, cred, name, returnImmediately, wild, free) ==
  LET v == RunScriptViews(req)
      g == GateOf(cred)
      rq == LaunchReq(cred, req, name, returnImmediately, FALSE)
      interpreter == Byte(req, 0, wild) # 0 \/ platform # "win32"
  IN /\ UNCHANGED <<config, clock, exitedProcessList, doneCalls>>
     /\ IF g.err # VIX_OK
          THEN /\ Decoded("RunScript", rq, g.err,
                          g.log \o HandlerAbort(FALSE, g.token, platform), -1, v)
               /\ UNCHANGED asyncProcs
        ELSE \E o \in RunScriptSteps(interpreter, g.token, platform, free) :
               /\ Decoded("RunScript", rq, o.err,
                          g.log \o o.log \o HandlerAbort(TRUE, g.token, platform)
                          \o (IF o.err = VIX_E_PROGRAM_NOT_STARTED
                                THEN <<"VixToolsFreeRunProgramState", "File_UnlinkNoFollow">>
                                ELSE <<>>),
                          o.pid, v)
               /\ IF o.err = VIX_OK
                    THEN asyncProcs' = Append(asyncProcs,
                           AsyncState("script", o.pid, name, returnImmediately, "exists",
                                      RunProgramEnvp(platform, userEnvironmentTable)))
                    ELSE UNCHANGED asyncProcs

(***************************************************************************)
(* The guest OS: a child terminates, normally with an exit code or         *)
(* abnormally (ProcMgr_GetExitCode then fails).                            *)
(***************************************************************************)
ProcExit(i, normal, code) ==
  /\ i \in 1..Len(asyncProcs)
  /\ asyncProcs[i].running
  /\ asyncProcs' = [asyncProcs EXCEPT ![i].running = FALSE,
                                      ![i].normalExit = normal,
                                      ![i].exitStatus = code]
  /\ Step("ProcExit", <<>>)
  /\ UNCHANGED <<config, clock, exitedProcessList, doneCalls>>

\* ProcMgr_GetExitCode: "if (0 != result) exitCode = -1".
ProcMgr_GetExitCode(p) == IF p.normalExit THEN p.exitStatus ELSE -1

\* A monitor that forgets VIX_RUNPROGRAM_RETURN_IMMEDIATELY.
ReportProgramDoneAlways(p, sink) ==
  IF sink # "NULL"
    THEN <<[sink |-> sink, requestName |-> p.requestName, err |-> VIX_OK,
            exitCode |-> IF p.normalExit THEN p.exitStatus ELSE -1, pid |-> p.pid]>>
    ELSE <<>>

\* The call of the completion sink, when there is one to make (1294-1301).
ReportProgramDone(p, sink) ==
  IF sink # "NULL" /\ ~p.returnImmediately
    THEN <<[sink |-> sink, requestName |-> p.requestName, err |-> VIX_OK,
            exitCode |-> ProcMgr_GetExitCode(p), pid |-> p.pid]>>
    ELSE <<>>

\* A monitor that frees the launch and keeps its timer source (returns TRUE).
FreeAsyncStateKeepTimer(p) ==
  [p EXCEPT !.freed = @ + 1,
            !.timers = @ + 1,
            !.tempScript = IF @ = "exists" THEN "deleted" ELSE @]

\* A monitor that frees the launch record twice.
FreeAsyncStateTwice(p) ==
  [p EXCEPT !.freed = @ + 2,
            !.tempScript = IF @ = "exists" THEN "deleted" ELSE @]

\* VixToolsFreeRunProgramState / VixToolsFreeStartProgramState.
FreeAsyncState(p) ==
  [p EXCEPT !.freed = @ + 1,
            !.tempScript = IF @ = "exists" THEN "deleted" ELSE @]

(***************************************************************************)
(* VixToolsMonitorAsyncProc (1249-1306): one firing of the timer of a      *)
(* fire-and-report launch.                                                 *)
(***************************************************************************)
\* A monitor that, finding the process alive, arms two timers.
MonitorAsyncProcArmingTwice(i) ==
  /\ i \in 1..Len(asyncProcs)
  /\ asyncProcs[i].flavor \in {"run", "script"}
  /\ asyncProcs[i].timers > 0
  /\ IF asyncProcs[i].running
       THEN /\ asyncProcs' = [asyncProcs EXCEPT ![i].timers = (@ - 1) + 2]
            /\ UNCHANGED doneCalls
       ELSE /\ doneCalls' = doneCalls \o ReportProgramDone(asyncProcs[i],
                                                           reportProgramDoneProc)
            /\ asyncProcs' = [asyncProcs EXCEPT
                 ![i] = FreeAsyncState([@ EXCEPT !.timers = @ - 1,
                                                 !.exitCodeCalls = @ + 1])]
  /\ Step("VixToolsMonitorAsyncProc",
          IF asyncProcs[i].running
            THEN <<"ProcMgr_IsAsyncProcRunning", "g_source_attach", "g_source_attach">>
          ELSE <<"ProcMgr_IsAsyncProcRunning", "ProcMgr_GetExitCode">>
               \o (IF ReportProgramDone(asyncProcs[i], reportProgramDoneProc) # <<>>
                     THEN <<"reportProgramDoneProc">> ELSE <<>>)
               \o <<"VixToolsFreeRunProgramState">>)
  /\ UNCHANGED <<config, clock, exitedProcessList>>

VixToolsMonitorAsyncProc(i) ==
  /\ i \in 1..Len(asyncProcs)
  /\ asyncProcs[i].flavor \in {"run", "script"}
  /\ asyncProcs[i].timers > 0
  /\ IF asyncProcs[i].running
       THEN /\ asyncProcs' = [asyncProcs EXCEPT ![i].timers = (@ - 1) + 1]
            /\ UNCHANGED doneCalls
       ELSE /\ doneCalls' = doneCalls \o ReportProgramDone(asyncProcs[i],
                                                           reportProgramDoneProc)
            /\ asyncProcs' = [asyncProcs EXCEPT
                 ![i] = FreeAsyncState([@ EXCEPT !.timers = @ - 1,
                                                 !.exitCodeCalls = @ + 1])]
  /\ Step("VixToolsMonitorAsyncProc",
          IF asyncProcs[i].running THEN <<"ProcMgr_IsAsyncProcRunning", "g_source_attach">>
          ELSE <<"ProcMgr_IsAsyncProcRunning", "ProcMgr_GetExitCode">>
               \o (IF ReportProgramDone(asyncProcs[i], reportProgramDoneProc) # <<>>
                     THEN <<"reportProgramDoneProc">> ELSE <<>>)
               \o <<"VixToolsFreeRunProgramState">>)
  /\ UNCHANGED <<config, clock, exitedProcessList>>

(***************************************************************************)
(* VixToolsMonitorStartProgram (1328-1388): one firing of the timer of a   *)
(* tracked launch.                                                         *)
(***************************************************************************)
VixToolsMonitorStartProgram(i) ==
  /\ i \in 1..Len(asyncProcs)
  /\ asyncProcs[i].flavor = "start"
  /\ asyncProcs[i].timers > 0
  /\ IF asyncProcs[i].running
       THEN /\ asyncProcs' = [asyncProcs EXCEPT ![i].timers = (@ - 1) + 1]
            /\ UNCHANGED exitedProcessList
       ELSE /\ exitedProcessList' =
                 VixToolsUpdateExitedProgramList(
                   exitedProcessList,
                   <<VixToolsExitedProgramState(
                       "NULL", "NULL", asyncProcs[i].pid, 0,
                       ProcMgr_GetExitCode(asyncProcs[i]), now, FALSE)>>,
                   now)
            /\ asyncProcs' = [asyncProcs EXCEPT
                 ![i] = FreeAsyncState([@ EXCEPT !.timers = @ - 1,
                                                 !.exitCodeCalls = @ + 1])]
  /\ Step("VixToolsMonitorStartProgram",
          IF asyncProcs[i].running THEN <<"ProcMgr_IsAsyncProcRunning", "g_source_attach">>
          ELSE <<"ProcMgr_IsAsyncProcRunning", "ProcMgr_GetExitCode",
                 "VixToolsUpdateExitedProgramList", "VixToolsFreeStartProgramState">>)
  /\ UNCHANGED <<config, clock, doneCalls>>

(***************************************************************************)
(* time(NULL) advances.                                                    *)
(***************************************************************************)
TickSteps == {SECONDS_BETWEEN_POLL_TEST_FINISHED, VIX_TOOLS_EXITED_PROGRAM_REAP_TIME}

Tick(d) ==
  /\ nticks < MaxTicks
  /\ now' = now + d
  /\ nticks' = nticks + 1
  /\ Step("time", <<>>)
  /\ UNCHANGED <<config, engine>>

VixTools_SetRunProgramCallback(sink) ==
  /\ reportProgramDoneProc' = sink
  /\ Step("VixTools_SetRunProgramCallback", <<>>)
  /\ UNCHANGED <<platform, thisProcessRunsAsRoot, allowConsoleUserOps,
                 userEnvironmentTable, environ, listing, credential, message, clock, engine>>

VixTools_SetConsoleUserPolicy(allow) ==
  /\ allowConsoleUserOps' = allow
  /\ Step("VixTools_SetConsoleUserPolicy", <<>>)
  /\ UNCHANGED <<platform, thisProcessRunsAsRoot, reportProgramDoneProc,
                 userEnvironmentTable, environ, listing, credential, message, clock, engine>>

(***************************************************************************)
(* VixToolsListProcessesEx (3056-3211).  pids is the request's pid filter  *)
(* (empty: none), procList the answer of ProcMgr_ListProcesses.            *)
(***************************************************************************)
ProcRecord(source, pid, exitCode, endTime) ==
  [source |-> source, pid |-> pid, exitCode |-> exitCode, endTime |-> endTime]

RECURSIVE Concat(_)
Concat(ss) == IF ss = <<>> THEN <<>> ELSE Head(ss) \o Concat(Tail(ss))

RegistryRecords(list) ==
  [k \in 1..Len(list) |->
     ProcRecord("registry", list[k].pid, list[k].exitCode, list[k].endTime)]

\* A listing of the registry that reports only the programs that have
\* exited.
ListExitedOnly(list, pids) ==
  LET exited == SelectSeq(list, LAMBDA e : ~e.isRunning)
  IN IF pids = <<>> THEN RegistryRecords(exited)
     ELSE Concat([i \in 1..Len(pids) |->
                    SelectSeq(RegistryRecords(exited), LAMBDA r : r.pid = pids[i])])

\* 3103-3141: the entries the registry holds, for each wanted pid in turn.
ListExited(list, pids) ==
  IF pids = <<>> THEN RegistryRecords(list)
  ELSE Concat([i \in 1..Len(pids) |->
                 SelectSeq(RegistryRecords(list), LAMBDA r : r.pid = pids[i])])

\* 3150-3198: the live processes that have no registry entry.
ListLive(list, pids, procList) ==
  LET live == [j \in 1..Len(procList) |-> ProcRecord("live", procList[j], 0, 0)]
      fresh(r) == VixToolsFindExitedProgramState(list, r.pid) = 0
  IN IF pids = <<>> THEN SelectSeq(live, fresh)
     ELSE Concat([i \in 1..Len(pids) |->
                    SelectSeq(live, LAMBDA r : fresh(r) /\ r.pid = pids[i])])

\* The answers ProcMgr_ListProcesses can give: the agent and the children
\* that run, children that have exited and are not yet waited for with or
\* without them.
LiveLists(procs) ==
  LET running == {procs[i].pid : i \in {j \in 1..Len(procs) : procs[j].running}}
      zombies == {procs[i].pid : i \in {j \in 1..Len(procs) :
                                          ~procs[j].running /\ procs[j].freed = 0}}
      asSeq(S) == IF 7 \in S THEN (IF 8 \in S THEN <<SelfPid, 7, 8>> ELSE <<SelfPid, 7>>)
                  ELSE (IF 8 \in S THEN <<SelfPid, 8>> ELSE <<SelfPid>>)
  IN {asSeq(running), asSeq(running \cup zombies)}

\* A listing that reads the registry first and sweeps it afterwards.
ListProcessesExSweepingLast(cred, pids, procList) ==
  LET g == GateOf(cred)
      rq == [cred |-> cred, pids |-> pids]
      reaped == VixToolsUpdateExitedProgramList(exitedProcessList, <<>>, now)
  IN /\ UNCHANGED <<config, clock, asyncProcs, doneCalls>>
     /\ IF g.err # VIX_OK
          THEN /\ Returns("ListProcessesEx", rq, g.err,
                          g.log \o HandlerAbort(FALSE, g.token, platform), <<>>)
               /\ UNCHANGED exitedProcessList
        ELSE IF procList = <<>>
          THEN /\ Returns("ListProcessesEx", rq, VIX_E_SYSTEM,
                          g.log \o <<"ProcMgr_ListProcesses">>
                          \o HandlerAbort(TRUE, g.token, platform), <<>>)
               /\ UNCHANGED exitedProcessList
        ELSE /\ exitedProcessList' = reaped
             /\ Returns("ListProcessesEx", rq, VIX_OK,
                        g.log \o <<"ProcMgr_ListProcesses", "VixToolsUpdateExitedProgramList">>
                        \o HandlerAbort(TRUE, g.token, platform),
                        ListExited(exitedProcessList, pids)
                        \o ListLive(exitedProcessList, pids, procList))

VixToolsListProcessesEx(cred, pids, procList) ==
  LET g == GateOf(cred)
      rq == [cred |-> cred, pids |-> pids]
      reaped == VixToolsUpdateExitedProgramList(exitedProcessList, <<>>, now)
  IN /\ UNCHANGED <<config, clock, asyncProcs, doneCalls>>
     /\ IF g.err # VIX_OK
          THEN /\ Returns("ListProcessesEx", rq, g.err,
                          g.log \o HandlerAbort(FALSE, g.token, platform), <<>>)
               /\ UNCHANGED exitedProcessList
        ELSE IF procList = <<>>
          THEN /\ Returns("ListProcessesEx", rq, VIX_E_SYSTEM,
                          g.log \o <<"ProcMgr_ListProcesses">>
                          \o HandlerAbort(TRUE, g.token, platform), <<>>)
               /\ UNCHANGED exitedProcessList
        ELSE /\ exitedProcessList' = reaped
             /\ Returns("ListProcessesEx", rq, VIX_OK,
                        g.log \o <<"ProcMgr_ListProcesses", "VixToolsUpdateExitedProgramList">>
                        \o HandlerAbort(TRUE, g.token, platform),
                        ListExited(reaped, pids) \o ListLive(reaped, pids, procList))

(***************************************************************************)
(* VixToolsKillProcess (3230-3274).                                        *)
(***************************************************************************)
\* A check that forgets the process group.
PidRefersIgnoringGroup(pid, plat) ==
  IF plat = "win32" THEN SelfPid = pid
  ELSE SelfPid = pid \/ 0 = pid \/ -1 = pid

\* A check that knows the agent's own pid only, on every build.
PidRefersOwnPidOnly(pid, plat) == SelfPid = pid

VixToolsPidRefersToThisProcess(pid, plat) ==
  IF plat = "win32" THEN SelfPid = pid
  ELSE \/ SelfPid = pid
       \/ 0 = pid
       \/ -1 = pid
       \/ (pid < -1 /\ SelfPgrp = pid * (-1))

\* What a delivered kill does to the children.
Killed(procs, pid) ==
  [i \in 1..Len(procs) |->
     IF procs[i].running /\ procs[i].pid = pid
       THEN [procs[i] EXCEPT !.running = FALSE, !.normalExit = FALSE]
       ELSE procs[i]]

VixToolsKillProcess(cred, pid, killed) ==
  LET g == GateOf(cred)
      rq == [cred |-> cred, pid |-> pid]
  IN /\ UNCHANGED <<config, clock, exitedProcessList, doneCalls>>
     /\ IF g.err # VIX_OK
          THEN /\ Returns("KillProcess", rq, g.err,
                          g.log \o HandlerAbort(FALSE, g.token, platform), "")
               /\ UNCHANGED asyncProcs
        ELSE IF VixToolsPidRefersToThisProcess(pid, platform)
          THEN /\ Returns("KillProcess", rq, VIX_E_GUEST_USER_PERMISSIONS,
                          g.log \o HandlerAbort(TRUE, g.token, platform), "")
               /\ UNCHANGED asyncProcs
        ELSE /\ Returns("KillProcess", rq,
                        IF killed THEN VIX_OK ELSE VIX_E_SYSTEM,
                        g.log \o <<"ProcMgr_KillByPid">>
                        \o HandlerAbort(TRUE, g.token, platform), "")
             /\ asyncProcs' = IF killed THEN Killed(asyncProcs, pid) ELSE asyncProcs

(***************************************************************************)
(* VixToolsCheckUserAccount (4156-4176).                                   *)
(***************************************************************************)
VixToolsCheckUserAccount(cred) ==
  LET g == GateOf(cred)
  IN /\ UNCHANGED <<config, clock, engine>>
     /\ Returns("CheckUserAccount", [cred |-> cred], g.err,
                g.log \o HandlerAbort(g.err = VIX_OK, g.token, platform), "")

(***************************************************************************)
(* VixToolsSetFileAttributes (3851-3982).  req.l1 is guestPathNameLength;  *)
(* headerLength + bodyLength is the fixed struct plus Len(req.data).       *)
(***************************************************************************)
SetFileAttributesSteps(plat) ==
  {Outcome(VIX_E_FILE_NOT_FOUND, -1, <<"File_Exists">>),
   Outcome(VIX_E_SYSTEM, -1, <<"File_Exists", "File_SetTimes">>)}
  \cup (IF plat = "win32"
          THEN {Outcome(VIX_OK, -1, <<"File_Exists", "File_SetTimes", "FileModified",
                                      "Win32U_SetFileAttributes">>)}
          ELSE {Outcome(VIX_E_SYSTEM, -1,
                        <<"File_Exists", "File_SetTimes", "FileModified",
                          "File_SetFilePermissions">>),
                Outcome(VIX_E_SYSTEM, -1,
                        <<"File_Exists", "File_SetTimes", "FileModified",
                          "File_SetFilePermissions", "Posix_Chown">>),
                Outcome(VIX_OK, -1,
                        <<"File_Exists", "File_SetTimes", "FileModified",
                          "File_SetFilePermissions", "Posix_Chown">>)})

VixToolsSetFileAttributes(req, cred) ==
  LET g == GateOf(cred)
      rq == [cred |-> cred, req |-> req, opCode |-> "SET_GUEST_FILE_ATTRIBUTES"]
  IN /\ UNCHANGED <<config, clock, engine>>
     /\ IF platform \notin {"win32", "linux"}
          THEN Returns("SetFileAttributes", rq, VIX_E_NOT_SUPPORTED, <<>>, "")
        ELSE IF Len(req.data) # req.l1 + 1
          THEN Returns("SetFileAttributes", rq, VIX_E_INVALID_MESSAGE_BODY,
                       HandlerAbort(FALSE, TokenNull, platform), "")
        ELSE IF req.data[1] = 0
          THEN Returns("SetFileAttributes", rq, VIX_E_INVALID_ARG,
                       HandlerAbort(FALSE, TokenNull, platform), "")
        ELSE IF req.data[req.l1 + 1] # 0
          THEN Returns("SetFileAttributes", rq, VIX_E_INVALID_MESSAGE_BODY,
                       HandlerAbort(FALSE, TokenNull, platform), "")
        ELSE IF g.err # VIX_OK
          THEN Returns("SetFileAttributes", rq, g.err,
                       g.log \o HandlerAbort(FALSE, g.token, platform), "")
        ELSE \E o \in SetFileAttributesSteps(platform) :
               Returns("SetFileAttributes", rq, o.err,
                       g.log \o o.log \o HandlerAbort(TRUE, g.token, platform), "")

(***************************************************************************)
(* VixToolsCreateTempFile (2504-2556) and VixToolsGetTempFile (4969-5138). *)
(* req.l1, l2, l3, l4 are filePrefixLength, fileSuffixLength,              *)
(* directoryPathLength and propertyListLength.                             *)
(***************************************************************************)
TempFileOpCodes == {"CREATE_TEMPORARY_FILE", "CREATE_TEMPORARY_FILE_EX",
                    "CREATE_TEMPORARY_DIRECTORY"}

\* A decoding that does not look for the terminator of directoryPath.
GetTempFileDecodeTwoTerminators(opCode, req) ==
  IF opCode = "CREATE_TEMPORARY_FILE" THEN VIX_OK
  ELSE IF Len(req.data) # req.l1 + 1 + req.l2 + 1 + req.l3 + 1 + req.l4
    THEN VIX_E_INVALID_MESSAGE_BODY
  ELSE IF req.data[req.l1 + 1] # 0 THEN VIX_E_INVALID_MESSAGE_BODY
  ELSE IF req.data[req.l1 + 1 + req.l2 + 1] # 0 THEN VIX_E_INVALID_MESSAGE_BODY
  ELSE VIX_OK

\* The decoding of the extended request: the error it ends with, VIX_OK
\* when the three strings were taken.
GetTempFileDecode(opCode, req) ==
  IF opCode = "CREATE_TEMPORARY_FILE" THEN VIX_OK
  ELSE IF Len(req.data) # req.l1 + 1 + req.l2 + 1 + req.l3 + 1 + req.l4
    THEN VIX_E_INVALID_MESSAGE_BODY
  ELSE IF req.data[req.l1 + 1] # 0 THEN VIX_E_INVALID_MESSAGE_BODY
  ELSE IF req.data[req.l1 + 1 + req.l2 + 1] # 0 THEN VIX_E_INVALID_MESSAGE_BODY
  ELSE IF req.data[req.l1 + 1 + req.l2 + 1 + req.l3 + 1] # 0
    THEN VIX_E_INVALID_MESSAGE_BODY
  ELSE VIX_OK

VixToolsGetTempFile(opCode, req, token, plat) ==
  LET tmpdir == IF plat = "win32" /\ token # PROCESS_CREATOR_USER_TOKEN
                  THEN <<"VixToolsGetUserTmpDir">> ELSE <<"File_GetTmpDir">>
  IN IF GetTempFileDecode(opCode, req) # VIX_OK
       THEN {Outcome(GetTempFileDecode(opCode, req), -1, <<>>)}
       ELSE {Outcome(VIX_E_SYSTEM, -1, tmpdir \o <<"File_MakeTempEx2">>),
             Outcome(VIX_OK, -1, tmpdir \o <<"File_MakeTempEx2", "TempFileCreated">>)}

VixToolsCreateTempFile(opCode, req, cred) ==
  LET g == GateOf(cred)
      rq == [cred |-> cred, req |-> req, opCode |-> opCode]
  IN /\ UNCHANGED <<config, clock, engine>>
     /\ IF g.err # VIX_OK
          THEN Returns("CreateTempFile", rq, g.err,
                       g.log \o HandlerAbort(FALSE, g.token, platform), "")
        ELSE \E o \in VixToolsGetTempFile(opCode, req, g.token, platform) :
               Returns("CreateTempFile", rq, o.err,
                       g.log \o o.log \o HandlerAbort(TRUE, g.token, platform),
                       IF o.err = VIX_OK THEN "filePathName" ELSE "")

(***************************************************************************)
(* VixToolsMoveObject (2852-2958).  req.l1 is oldPathNameLength.           *)
(***************************************************************************)
MoveObjectSteps ==
  {Outcome(VIX_E_FILE_NOT_FOUND, -1, <<"File_Exists">>),
   Outcome(VIX_OK, -1, <<"File_Exists", "File_IsSameFile">>),
   Outcome(VIX_E_ALREADY_EXISTS, -1,
           <<"File_Exists", "File_IsSameFile", "File_IsDirectory">>),
   Outcome(VIX_E_SYSTEM, -1,
           <<"File_Exists", "File_IsSameFile", "File_IsDirectory", "File_Rename">>),
   Outcome(VIX_OK, -1,
           <<"File_Exists", "File_IsSameFile", "File_IsDirectory", "File_Rename",
             "FileModified">>)}

\* wild and wild2 are what the bytes behind the request read as.
VixToolsMoveObject(req, cred, wild, wild2) ==
  LET v == MoveObjectViews(req)
      g == GateOf(cred)
      rq == [cred |-> cred, req |-> req, opCode |-> "MOVE_GUEST_FILE"]
  IN /\ UNCHANGED <<config, clock, engine>>
     /\ IF Byte(req, 0, wild) = 0 \/ Byte(req, req.l1 + 1, wild2) = 0
          THEN Decoded("MoveObject", rq, VIX_E_INVALID_ARG,
                       HandlerAbort(FALSE, TokenNull, platform), "", v)
        ELSE IF g.err # VIX_OK
          THEN Decoded("MoveObject", rq, g.err,
                       g.log \o HandlerAbort(FALSE, g.token, platform), "", v)
        ELSE \E o \in MoveObjectSteps :
               Decoded("MoveObject", rq, o.err,
                       g.log \o o.log \o HandlerAbort(TRUE, g.token, platform), "", v)

(***************************************************************************)
(* VixToolsListFiles (3545-3759).  req.l1 is guestPathNameLength, req.l2   *)
(* patternLength.                                                          *)
(***************************************************************************)
ListFilesSteps(pattern) ==
  LET regex == IF pattern THEN <<"g_regex_new">> ELSE <<>>
  IN
  (IF pattern THEN {Outcome(VIX_E_INVALID_ARG, -1, <<"g_regex_new">>)} ELSE {})
  \cup {Outcome(VIX_E_SYSTEM, -1, regex \o <<"File_IsDirectory", "File_ListDirectory">>),
        Outcome(VIX_OK, -1, regex \o <<"File_IsDirectory", "File_ListDirectory">>),
        Outcome(VIX_OK, -1, regex \o <<"File_IsDirectory", "File_Exists">>),
        Outcome(VIX_E_OBJECT_NOT_FOUND, -1, regex \o <<"File_IsDirectory", "File_Exists">>)}

\* A file name is the sequence of its characters.  A listing is what the
\* request asks for and what the guest holds: fileNameList, the names
\* File_ListDirectory returns in its order (or the one name of a file that
\* is no directory); offset, index and maxResults of the request; regex,
\* the character the compiled pattern looks for; maxBufferSize.
Listing(names, offset, index, maxResults, regex, maxBufferSize) ==
  [fileNameList |-> names, offset |-> offset, index |-> index,
   maxResults |-> maxResults, regex |-> regex, maxBufferSize |-> maxBufferSize]

\* g_regex_match(regex, currentFileName, 0, NULL): a pattern that is one
\* character matches the names that hold it; there is no regex without a
\* pattern.
RegexMatch(regex, name) == \E i \in 1..Len(name) : name[i] = regex

Skipped(l, pattern, fileNum) ==
  pattern /\ ~RegexMatch(l.regex, l.fileNameList[fileNum + 1])

\* strlen(fileExtendedInfoLinuxFormatString), with FMT64 "l".
FormatStringLength == 126

\* The characters of the conversion specifiers in it: %s, four %lu and
\* four %d.
FormatSpecifiersLength == 22

\* The characters of the eight numbers of an entry: one each, or as many as
\* are reserved for them.
MinDigits == 8
MaxDigits == 120

\* The name a request gives: of a directory, or of a file that is listed
\* as the one entry.
DirPathName == <<"d">>

\* The bytes reserved for one entry (3662-3668, linux).
EntrySize(name) == FormatStringLength + 2 + (10 + 20 + (20 * 3)) + (10 * 3) + Len(name)

\* The first loop (3651-3686), from fileNum on with count entries counted,
\* resultBufferSize bytes reserved, and lastGoodNumFiles and
\* lastGoodResultBufferSize as they stand.
RECURSIVE ListFilesCount(_, _, _, _, _, _, _)
ListFilesCount(l, pattern, fileNum, count, resultBufferSize, lastGoodNumFiles, lastGoodResultBufferSize) ==
  IF ~(fileNum < Len(l.fileNameList) /\ count < l.maxResults)
    THEN [numResults |-> count, truncated |-> FALSE,
          lastGoodNumFiles |-> lastGoodNumFiles,
          resultBufferSize |-> lastGoodResultBufferSize]
  ELSE IF Skipped(l, pattern, fileNum)
    THEN ListFilesCount(l, pattern, fileNum + 1, count, resultBufferSize,
                        lastGoodNumFiles, lastGoodResultBufferSize)
  ELSE LET size == resultBufferSize + EntrySize(l.fileNameList[fileNum + 1])
       IN IF size < l.maxBufferSize
            THEN ListFilesCount(l, pattern, fileNum + 1, count + 1, size, fileNum + 1, size)
          ELSE [numResults |-> count + 1, truncated |-> TRUE,
                lastGoodNumFiles |-> lastGoodNumFiles,
                resultBufferSize |-> lastGoodResultBufferSize]

\* The second loop (3709-3737): the positions whose entries it prints.  Its
\* continue runs fileNum++, count++ as every other pass does.
RECURSIVE ListFilesPrinted(_, _, _, _, _)
ListFilesPrinted(l, pattern, fileNum, count, numResults) ==
  IF ~(count < numResults) THEN <<>>
  ELSE IF Skipped(l, pattern, fileNum)
    THEN ListFilesPrinted(l, pattern, fileNum + 1, count + 1, numResults)
  ELSE <<fileNum>> \o ListFilesPrinted(l, pattern, fileNum + 1, count + 1, numResults)

\* The characters Str_Sprintf writes for one entry (4121-4132): the format
\* without its conversion specifiers, the name, and digits characters for
\* the eight numbers.
PrintedSize(name, digits) == FormatStringLength - FormatSpecifiersLength + Len(name) + digits

RECURSIVE PrintedSizes(_, _)
PrintedSizes(names, digits) ==
  IF names = <<>> THEN 0
  ELSE PrintedSize(Head(names), digits) + PrintedSizes(Tail(names), digits)

\* fileList as the handler leaves it on success (3639-3738): the truncation
\* flag and the names of the entries printed.  An entry counted although
\* no bytes were reserved for it is printed into what the entries before it
\* left unused of theirs; Str_Sprintf does not return when that is too
\* little.
FileList(l, pattern, digits) ==
  LET first == l.offset + l.index
      c == ListFilesCount(l, pattern, first, 0, 3, 0, 3)
      printed == ListFilesPrinted(l, pattern, first, 0, c.numResults)
      reserved == SelectSeq(printed, LAMBDA n : n + 1 <= c.lastGoodNumFiles)
      names(ps) == [k \in 1..Len(ps) |-> l.fileNameList[ps[k] + 1]]
      left == c.resultBufferSize - 2 - PrintedSizes(names(reserved), digits)
      fits == PrintedSizes(names(printed), digits) - PrintedSizes(names(reserved), digits) < left
  IN [overflow |-> ~fits,
      text |-> <<IF c.truncated THEN "1" ELSE "0">>
               \o names(IF fits THEN printed ELSE reserved)]

\* The listing of the requests that are about something else: two files,
\* from the first on, with room for both.
PlainListing == Listing(<<<<"a">>, <<"b">>>>, 0, 0, 2, "a", 1000)

VixToolsListFiles(req, cred, wild, l, digits) ==
  LET v == ListFilesViews(req)
      g == GateOf(cred)
      rq == [cred |-> cred, req |-> req, opCode |-> "LIST_FILES", listing |-> l]
      single == [l EXCEPT !.fileNameList = <<DirPathName>>]
  IN /\ UNCHANGED <<config, clock, engine>>
     /\ IF Byte(req, 0, wild) = 0
          THEN Decoded("ListFiles", rq, VIX_E_INVALID_ARG,
                       HandlerAbort(FALSE, TokenNull, platform), <<>>, v)
        ELSE IF g.err # VIX_OK
          THEN Decoded("ListFiles", rq, g.err,
                       g.log \o HandlerAbort(FALSE, g.token, platform), <<>>, v)
        ELSE \E o \in ListFilesSteps(req.l2 > 0) :
               LET fileList == FileList(IF o.log[Len(o.log)] = "File_Exists" THEN single ELSE l,
                                        req.l2 > 0, digits)
               IN IF o.err = VIX_OK /\ fileList.overflow
                    THEN Decoded("ListFiles", rq, "Panic", g.log \o o.log, <<>>, v)
                    ELSE Decoded("ListFiles", rq, o.err,
                                 g.log \o o.log \o HandlerAbort(TRUE, g.token, platform),
                                 IF o.err = VIX_OK THEN fileList.text ELSE <<>>, v)

(***************************************************************************)
(* VixToolsDeleteObject (2238-2341).  The path name follows the fixed      *)
(* struct; the four opcodes of the dispatcher (5964-5968) reach it.        *)
(***************************************************************************)
DeleteObjectOpCodes == {"DELETE_GUEST_FILE", "DELETE_GUEST_REGISTRY_KEY",
                        "DELETE_GUEST_DIRECTORY", "DELETE_GUEST_EMPTY_DIRECTORY"}

DeleteObjectSteps(opCode) ==
  IF opCode = "DELETE_GUEST_FILE"
    THEN {Outcome(VIX_E_FILE_NOT_FOUND, -1, <<"File_IsSymLink", "File_Exists">>),
          Outcome(VIX_E_NOT_A_FILE, -1, <<"File_IsSymLink", "File_Exists", "File_IsFile">>),
          Outcome(VIX_E_SYSTEM, -1,
                  <<"File_IsSymLink", "File_Exists", "File_IsFile", "File_UnlinkNoFollow">>),
          Outcome(VIX_OK, -1,
                  <<"File_IsSymLink", "File_Exists", "File_IsFile", "File_UnlinkNoFollow">>),
          Outcome(VIX_E_SYSTEM, -1, <<"File_IsSymLink", "File_UnlinkNoFollow">>),
          Outcome(VIX_OK, -1, <<"File_IsSymLink", "File_UnlinkNoFollow">>)}
  ELSE IF opCode = "DELETE_GUEST_REGISTRY_KEY"
    THEN {Outcome(VIX_E_OP_NOT_SUPPORTED_ON_GUEST, -1, <<>>)}
  ELSE LET delete == IF opCode = "DELETE_GUEST_DIRECTORY"
                       THEN "File_DeleteDirectoryTree" ELSE "File_DeleteEmptyDirectory"
       IN {Outcome(VIX_E_FILE_NOT_FOUND, -1, <<"File_Exists">>),
           Outcome(VIX_E_NOT_A_DIRECTORY, -1, <<"File_Exists", "File_IsDirectory">>),
           Outcome(VIX_E_SYSTEM, -1, <<"File_Exists", "File_IsDirectory", delete>>),
           Outcome(VIX_OK, -1, <<"File_Exists", "File_IsDirectory", delete>>)}

\* A handler that deletes before it asks for the identity.
DeleteObjectBeforeImpersonating(opCode, req, cred, wild) ==
  LET g == GateOf(cred)
      rq == [cred |-> cred, req |-> req, opCode |-> opCode]
  IN /\ UNCHANGED <<config, clock, engine>>
     /\ IF Byte(req, 0, wild) = 0
          THEN Returns("DeleteObject", rq, VIX_E_INVALID_ARG,
                       HandlerAbort(FALSE, TokenNull, platform), "")
        ELSE \E o \in DeleteObjectSteps(opCode) :
               Returns("DeleteObject", rq, IF g.err # VIX_OK THEN g.err ELSE o.err,
                       o.log \o g.log
                       \o HandlerAbort(g.err = VIX_OK, g.token, platform), "")

\* wild is what the byte behind the request reads as.
VixToolsDeleteObject(opCode, req, cred, wild) ==
  LET g == GateOf(cred)
      rq == [cred |-> cred, req |-> req, opCode |-> opCode]
  IN /\ UNCHANGED <<config, clock, engine>>
     /\ IF Byte(req, 0, wild) = 0
          THEN Returns("DeleteObject", rq, VIX_E_INVALID_ARG,
                       HandlerAbort(FALSE, TokenNull, platform), "")
        ELSE IF g.err # VIX_OK
          THEN Returns("DeleteObject", rq, g.err,
                       g.log \o HandlerAbort(FALSE, g.token, platform), "")
        ELSE \E o \in DeleteObjectSteps(opCode) :
               Returns("DeleteObject", rq, o.err,
                       g.log \o o.log \o HandlerAbort(TRUE, g.token, platform), "")

(***************************************************************************)
(* Result buffers.  A handler hands the dispatcher a pointer through its   *)
(* result parameter.  What the model keeps of it is where the bytes live   *)
(* ("heap", "static", "literal", or "NULL" when the parameter was never    *)
(* written) and the length of the text: 0 for the empty string, the        *)
(* number of characters of a printed number, the size of a binary reply,   *)
(* and 1 for any other text.                                               *)
(***************************************************************************)
Buffer(storage, length) == [storage |-> storage, length |-> length]

NullBuffer == Buffer("NULL", 0)

\* The characters "%d" prints for n.
RECURSIVE DecimalLength(_)
DecimalLength(n) ==
  IF n < 0 THEN 1 + DecimalLength(-n)
  ELSE IF n < 10 THEN 1
  ELSE 1 + DecimalLength(n \div 10)

(***************************************************************************)
(* VixToolsReadVariable (2576-2642).  value starts as the literal "" and   *)
(* is replaced by a heap copy only when an environment variable is read:   *)
(* of the table's entry where the table exists, of the agent's own         *)
(* variable otherwise, of "" when there is none.                           *)
(***************************************************************************)
VariableTypes == {"VIX_GUEST_ENVIRONMENT_VARIABLE", "VIX_GUEST_CONFIG",
                  "VIX_VM_CONFIG_RUNTIME_ONLY", "VIX_VM_GUEST_VARIABLE"}

\* A string result: where it is stored, its length, its text.
Text(storage, value) ==
  [storage |-> storage, length |-> IF value = "" THEN 0 ELSE 1, text |-> value]

\* A handler that answers from the agent's own variables although the table
\* exists.
ReadVariableFromProcess(cred, variableType, valueName) ==
  LET g == GateOf(cred)
      rq == [cred |-> cred, variableType |-> variableType, valueName |-> valueName]
      entries == environ.process
      value == IF valueName \in DOMAIN entries THEN entries[valueName] ELSE ""
  IN /\ UNCHANGED <<config, clock, engine>>
     /\ IF g.err # VIX_OK
          THEN Returns("ReadVariable", rq, g.err,
                       g.log \o HandlerAbort(FALSE, g.token, platform), NullBuffer)
        ELSE IF variableType = "VIX_GUEST_ENVIRONMENT_VARIABLE"
          THEN Returns("ReadVariable", rq, VIX_OK,
                       g.log \o <<"System_GetEnv">> \o HandlerAbort(TRUE, g.token, platform),
                       Text("heap", value))
        ELSE Returns("ReadVariable", rq, VIX_E_OP_NOT_SUPPORTED_ON_GUEST,
                     g.log \o HandlerAbort(TRUE, g.token, platform),
                     Buffer("literal", 0))

VixToolsReadVariable(cred, variableType, valueName) ==
  LET g == GateOf(cred)
      rq == [cred |-> cred, variableType |-> variableType, valueName |-> valueName]
      table == platform # "win32" /\ userEnvironmentTable # "NULL"
      lookup == IF table THEN "HashTable_Lookup" ELSE "System_GetEnv"
      entries == IF table THEN environ.table ELSE environ.process
      value == IF valueName \in DOMAIN entries THEN entries[valueName] ELSE ""
  IN /\ UNCHANGED <<config, clock, engine>>
     /\ IF g.err # VIX_OK
          THEN Returns("ReadVariable", rq, g.err,
                       g.log \o HandlerAbort(FALSE, g.token, platform), NullBuffer)
        ELSE IF variableType = "VIX_GUEST_ENVIRONMENT_VARIABLE"
          THEN Returns("ReadVariable", rq, VIX_OK,
                       g.log \o <<lookup>> \o HandlerAbort(TRUE, g.token, platform),
                       Text("heap", value))
        ELSE Returns("ReadVariable", rq, VIX_E_OP_NOT_SUPPORTED_ON_GUEST,
                     g.log \o HandlerAbort(TRUE, g.token, platform),
                     Buffer("literal", 0))

(***************************************************************************)
(* VixToolsWriteVariable (2753-2834).  parsed is the answer of             *)
(* VixMsg_ParseWriteVariableRequest, hasAdminPriv that of                  *)
(* Util_HasAdminPriv for the impersonated user, setEnvResult that of       *)
(* System_SetEnv.                                                          *)
(***************************************************************************)
VixToolsWriteVariable(cred, variableType, valueName, value, parsed, hasAdminPriv, setEnvResult) ==
  LET g == GateOf(cred)
      rq == [cred |-> cred, variableType |-> variableType,
             valueName |-> valueName, value |-> value]
      table == platform # "win32" /\ userEnvironmentTable # "NULL"
      checked == IF platform # "win32" THEN <<"Util_HasAdminPriv">> ELSE <<>>
      leave(log) == log \o HandlerAbort(TRUE, g.token, platform)
  IN /\ UNCHANGED <<setup, clock, engine>>
     /\ IF ~parsed
          THEN /\ Returns("WriteVariable", rq, VIX_E_INVALID_MESSAGE_BODY,
                          HandlerAbort(FALSE, TokenNull, platform), "")
               /\ UNCHANGED environ
        ELSE IF g.err # VIX_OK
          THEN /\ Returns("WriteVariable", rq, g.err,
                          g.log \o HandlerAbort(FALSE, g.token, platform), "")
               /\ UNCHANGED environ
        ELSE IF variableType # "VIX_GUEST_ENVIRONMENT_VARIABLE"
          THEN /\ Returns("WriteVariable", rq, VIX_E_OP_NOT_SUPPORTED_ON_GUEST,
                          leave(g.log), "")
               /\ UNCHANGED environ
        ELSE IF platform # "win32" /\ ~hasAdminPriv
          THEN /\ Returns("WriteVariable", rq, VIX_E_GUEST_USER_PERMISSIONS,
                          leave(g.log \o checked), "")
               /\ UNCHANGED environ
        ELSE IF setEnvResult # 0
          THEN /\ Returns("WriteVariable", rq, VIX_E_SYSTEM,
                          leave(g.log \o checked \o <<"System_SetEnv">>), "")
               /\ UNCHANGED environ
        ELSE /\ Returns("WriteVariable", rq, VIX_OK,
                        leave(g.log \o checked \o <<"System_SetEnv">>
                              \o (IF table THEN <<"HashTable_ReplaceOrInsert">> ELSE <<>>)),
                        "")
             /\ environ' =
                  [process |-> HashTable_ReplaceOrInsert(environ.process, valueName, value),
                   table |-> IF table
                               THEN HashTable_ReplaceOrInsert(environ.table, valueName, value)
                               ELSE environ.table]

\* VixTools_Initialize called again with the parameters of the first call:
\* the table is cleared and loaded from the array once more.
Reinitialize ==
  /\ environ' = [environ EXCEPT !.table = IF userEnvironmentTable = "NULL" THEN @
                                          ELSE TableEntries(OriginalEnvp)]
  /\ Step("VixTools_Initialize", <<>>)
  /\ UNCHANGED <<setup, clock, engine>>

(***************************************************************************)
(* VixToolsObjectExists (2361-2433).  resultInt is printed into the static *)
(* resultBuffer on every path.                                             *)
(***************************************************************************)
ObjectExistsOpCodes == {"GUEST_FILE_EXISTS", "REGISTRY_KEY_EXISTS", "DIRECTORY_EXISTS"}

VixToolsObjectExists(opCode, req, cred, wild, exists) ==
  LET g == GateOf(cred)
      rq == [cred |-> cred, req |-> req, opCode |-> opCode]
      printed(resultInt) == Buffer("static", DecimalLength(resultInt))
      resultInt == IF exists THEN 1 ELSE 0
  IN /\ UNCHANGED <<config, clock, engine>>
     /\ IF Byte(req, 0, wild) = 0
          THEN Returns("ObjectExists", rq, VIX_E_INVALID_ARG,
                       HandlerAbort(FALSE, TokenNull, platform), printed(0))
        ELSE IF g.err # VIX_OK
          THEN Returns("ObjectExists", rq, g.err,
                       g.log \o HandlerAbort(FALSE, g.token, platform), printed(0))
        ELSE IF opCode = "GUEST_FILE_EXISTS"
          THEN Returns("ObjectExists", rq, VIX_OK,
                       g.log \o <<"File_IsFile">> \o HandlerAbort(TRUE, g.token, platform),
                       printed(resultInt))
        ELSE IF opCode = "REGISTRY_KEY_EXISTS"
          THEN IF platform = "win32"
                 THEN Returns("ObjectExists", rq, VIX_OK,
                              g.log \o <<"Registry_KeyExists">>
                              \o HandlerAbort(TRUE, g.token, platform),
                              printed(resultInt))
                 ELSE Returns("ObjectExists", rq, VIX_E_OP_NOT_SUPPORTED_ON_GUEST,
                              g.log \o HandlerAbort(TRUE, g.token, platform), printed(0))
        ELSE Returns("ObjectExists", rq, VIX_OK,
                     g.log \o <<"File_IsDirectory">> \o HandlerAbort(TRUE, g.token, platform),
                     printed(resultInt))

(***************************************************************************)
(* VixToolsGetFileInfo (3777-3832).  resultBuffer is allocated once the    *)
(* file was found, and is a heap copy of "" otherwise.                     *)
(***************************************************************************)
VixToolsGetFileInfo(req, cred, wild, exists) ==
  LET g == GateOf(cred)
      rq == [cred |-> cred, req |-> req]
  IN /\ UNCHANGED <<config, clock, engine>>
     /\ IF Byte(req, 0, wild) = 0
          THEN Returns("GetFileInfo", rq, VIX_E_INVALID_ARG,
                       HandlerAbort(FALSE, TokenNull, platform), Buffer("heap", 0))
        ELSE IF g.err # VIX_OK
          THEN Returns("GetFileInfo", rq, g.err,
                       g.log \o HandlerAbort(FALSE, g.token, platform), Buffer("heap", 0))
        ELSE IF ~exists
          THEN Returns("GetFileInfo", rq, VIX_E_FILE_NOT_FOUND,
                       g.log \o <<"File_Exists">> \o HandlerAbort(TRUE, g.token, platform),
                       Buffer("heap", 0))
        ELSE Returns("GetFileInfo", rq, VIX_OK,
                     g.log \o <<"File_Exists", "VixToolsPrintFileInfo">>
                     \o HandlerAbort(TRUE, g.token, platform),
                     Buffer("heap", 1))

(***************************************************************************)
(* VixToolsProcessHgfsPacket (5167-5219).  The reply is binary: its size   *)
(* is what HgfsServer_ProcessPacket left in hgfsPacketSize, which on       *)
(* FreeBSD, where the server is not called, is still the request's.        *)
(***************************************************************************)
PacketSizes == {0, 1, 2}

VixToolsProcessHgfsPacket(cred, hgfsPacketSize, replySize) ==
  LET g == GateOf(cred)
      rq == [cred |-> cred, hgfsPacketSize |-> hgfsPacketSize]
  IN /\ UNCHANGED <<config, clock, engine>>
     /\ IF hgfsPacketSize = 0
          THEN Returns("ProcessHgfsPacket", rq, VIX_E_FAIL,
                       HandlerAbort(FALSE, TokenNull, platform), NullBuffer)
        ELSE IF g.err # VIX_OK
          THEN Returns("ProcessHgfsPacket", rq, g.err,
                       g.log \o HandlerAbort(FALSE, g.token, platform), NullBuffer)
        ELSE IF platform = "freebsd"
          THEN Returns("ProcessHgfsPacket", rq, VIX_OK,
                       g.log \o HandlerAbort(TRUE, g.token, platform),
                       Buffer("static", hgfsPacketSize))
        ELSE Returns("ProcessHgfsPacket", rq, VIX_OK,
                     g.log \o <<"HgfsServer_ProcessPacket">>
                     \o HandlerAbort(TRUE, g.token, platform),
                     Buffer("static", replySize))

(***************************************************************************)
(* VixTools_ProcessVixCommand (5877-6148).  A dispatch is the step of the  *)
(* handler its switch selects; what the dispatcher adds is what it makes   *)
(* of the handler's result once the handler returned.                      *)
(***************************************************************************)
\* The opcodes of no case: the switch takes default and calls no handler.
UnrecognizedOpCodes == {"VIX_COMMAND_UNKNOWN", "VIX_COMMAND_GET_HANDLE_STATE"}

DefaultCase(opCode) ==
  /\ UNCHANGED <<config, clock, engine>>
  /\ Returns("default", [opCode |-> opCode], VIX_OK, <<>>, NullBuffer)

\* The steps that are dispatches, by the handler the case calls.
DispatchedHandlers ==
  {"StartProgram", "RunProgram", "RunScript", "ListProcessesEx", "KillProcess",
   "CheckUserAccount", "SetFileAttributes", "CreateTempFile", "MoveObject",
   "ListFiles", "ReadVariable", "ObjectExists", "GetFileInfo",
   "ProcessHgfsPacket", "DeleteObject", "default"}

\* resultValue after the case: what the handler stored through its result
\* parameter, NULL for a handler that takes none or did not write it.
ResultValue(op, result) ==
  CASE op \in {"StartProgram", "RunProgram", "RunScript"} ->
         Buffer("static", DecimalLength(result))
    [] op = "ListProcessesEx" ->
         Buffer("static", IF result = <<>> THEN 0 ELSE 1)
    [] op = "CreateTempFile" ->
         IF result = "" THEN NullBuffer ELSE Buffer("heap", 1)
    [] op = "ListFiles" ->
         Buffer("heap", IF result = <<>> THEN 0 ELSE 1)
    [] op \in {"ReadVariable", "ObjectExists", "GetFileInfo", "ProcessHgfsPacket"} ->
         result
    [] OTHER -> NullBuffer

\* The cases that set deleteResultValue = TRUE once the handler returned.
OwnedResultHandlers == {"ListFiles", "CreateTempFile", "ReadVariable", "GetFileInfo"}

Reply(buffer, length, delete) ==
  [resultBuffer |-> buffer, resultLen |-> length, deleteResultBufferResult |-> delete]

\* A dispatcher that hands out resultValue as it is, NULL included.
ProcessVixCommandKeepingNull(op, resultValue) ==
  Reply(resultValue, resultValue.length, op \in OwnedResultHandlers)

\* The three outputs, from the abort label on: NULL becomes the literal ""
\* that is not to be freed, and the length is strlen(resultValue) or, for
\* the binary reply, the size the handler gave.
VixTools_ProcessVixCommand(op, resultValue) ==
  IF resultValue.storage = "NULL"
    THEN Reply(Buffer("literal", 0), 0, FALSE)
    ELSE Reply(resultValue, resultValue.length, op \in OwnedResultHandlers)

\* What the last dispatch returned to its caller.
Returned == VixTools_ProcessVixCommand(lastOp, ResultValue(lastOp, lastResult))

(***************************************************************************)
(* Inputs.                                                                 *)
(***************************************************************************)
Sinks == {"NULL", "sinkA"}
Bytes == {0, 1}

ByteSeqs(n) == UNION {[1..k -> Bytes] : k \in 0..n}

\* Every request of the bounded size, well formed or not.
Requests ==
  {Request(d, a, b, c, e) :
     d \in ByteSeqs(MaxData), a \in 0..MaxDeclared, b \in 0..MaxDeclared,
     c \in 0..1, e \in 0..1}

\* A request that names a program and nothing else.
ProgramOnly == Request(<<1, 0>>, 1, 0, 0, 0)

\* A start-program request that names a program and a working directory
\* (its lengths count the terminators).
ProgramInDir == Request(<<1, 0, 1, 0>>, 2, 0, 2, 0)

\* Credentials of the three kinds of outcome: no impersonation needed,
\* impersonation of an authenticated user, and refusal.
RootCred == Cred("ROOT", FALSE, FALSE, FALSE, FALSE, FALSE)
UserCred == Cred("NAME_PASSWORD", TRUE, FALSE, TRUE, TRUE, FALSE)
BadCred == Cred("NAME_PASSWORD", TRUE, FALSE, FALSE, FALSE, FALSE)
SomeCredentials == {RootCred, UserCred, BadCred}

KillPids == {SelfPid, 0, -1, -SelfPgrp, -SelfPid, 7}
PidFilters == {<<>>, <<7>>, <<7, 7>>}

(***************************************************************************)
(* VixTools_Initialize (399-416): the agent after it started, on one of    *)
(* the builds plats, with thisProcessRunsAsRootParam from roots,           *)
(* originalEnvp from envps and reportProgramDoneProcParam from sinks, and  *)
(* a client whose requests carry one of creds and one of msgs.             *)
(***************************************************************************)
\* The table VixToolsBuildUserEnvironmentTable leaves: none on win32, where
\* it is not called, and none when envp is NULL.
VixToolsBuildUserEnvironmentTable(plat, envp) ==
  IF plat = "win32" THEN "NULL" ELSE envp

\* The agent after VixTools_Initialize and its clients' requests, but for
\* the directory they list.
Started(plats, roots, envps, sinks, creds, msgs) ==
  /\ platform \in plats
  /\ \E envp \in envps :
       userEnvironmentTable = VixToolsBuildUserEnvironmentTable(platform, envp)
  /\ environ = [process |-> AgentEnviron,
                table |-> IF userEnvironmentTable = "NULL" THEN EmptyTable
                          ELSE TableEntries(OriginalEnvp)]
  /\ credential \in creds
  /\ message \in msgs
  /\ thisProcessRunsAsRoot \in roots
  /\ allowConsoleUserOps = FALSE
  /\ reportProgramDoneProc \in sinks
  /\ now = Epoch
  /\ nticks = 0
  /\ exitedProcessList = <<>>
  /\ asyncProcs = <<>>
  /\ doneCalls = <<>>
  /\ secContext = "agent"
  /\ openTokens = 0
  /\ lastOp = "none"
  /\ lastErr = VIX_OK
  /\ lastLog = <<>>
  /\ lastCalls = <<>>
  /\ lastReq = <<>>
  /\ lastResult = ""
  /\ lastViews = <<>>

VixTools_Initialize(plats, roots, envps, sinks, creds, msgs) ==
  /\ Started(plats, roots, envps, sinks, creds, msgs)
  /\ listing = PlainListing

\* The agent started without a list of environment variables.
Boot(plats, roots, sinks, creds, msgs) ==
  VixTools_Initialize(plats, roots, {"NULL"}, sinks, creds, msgs)

\* The guest hands out the lowest pid that is free.
Lowest(S) == IF S = {} THEN {} ELSE {CHOOSE x \in S : \A y \in S : x <= y}

ChildExits ==
  \E i \in 1..Len(asyncProcs), normal \in BOOLEAN, code \in ExitCodes :
    ProcExit(i, normal, IF normal THEN code ELSE 0)

TimePasses == \E d \in TickSteps : Tick(d)

(***************************************************************************)
(* The registry: tracked launches of a well-formed request by the agent    *)
(* running as root on linux, their children, their timers, the clock and   *)
(* the process listing.                                                    *)
(***************************************************************************)
Init == Boot({"linux"}, {TRUE}, {"NULL"}, {UserCred}, {ProgramOnly})

StartProgram ==
  VixTools_StartProgram(message, credential, "cmdA", 0, Lowest(Available))

MonitorStartProgram == \E i \in 1..Len(asyncProcs) : VixToolsMonitorStartProgram(i)

ListProcessesEx ==
  \E pids \in PidFilters, procList \in LiveLists(asyncProcs) \cup {<<>>} :
    VixToolsListProcessesEx(credential, pids, procList)

Next ==
  \/ StartProgram
  \/ ChildExits
  \/ MonitorStartProgram
  \/ TimePasses
  \/ ListProcessesEx

Spec == Init /\ [][Next]_vars

(***************************************************************************)
(* The fire-and-report engine: launches of a well-formed request and of a  *)
(* script by the agent running as root on linux, their children, their     *)
(* timers and the registration of the completion sink.  The timers are     *)
(* sources of the glib main loop, which runs every source that is due.     *)
(***************************************************************************)
InitEngine == Boot({"linux"}, {TRUE}, Sinks, {UserCred}, {ProgramOnly})

\* The client names its requests: the first launch one name, later ones
\* another.
NextRequestName == IF asyncProcs = <<>> THEN "cmdA" ELSE "cmdB"

RunProgram ==
  \E ri \in BOOLEAN :
    VixTools_RunProgram(message, credential, NextRequestName, ri, FALSE, FALSE,
                        0, -1, Lowest(Available))

RunScript ==
  VixToolsRunScript(message, credential, NextRequestName, FALSE, 0, Lowest(Available))

MonitorAsyncProc == \E i \in 1..Len(asyncProcs) : VixToolsMonitorAsyncProc(i)

SetRunProgramCallback == \E sink \in Sinks : VixTools_SetRunProgramCallback(sink)

NextEngine ==
  \/ RunProgram
  \/ RunScript
  \/ ChildExits
  \/ MonitorAsyncProc
  \/ SetRunProgramCallback

SpecEngine == InitEngine /\ [][NextEngine]_vars

FairSpecEngine ==
  SpecEngine /\ \A i \in 1..MaxLaunches : WF_vars(VixToolsMonitorAsyncProc(i))

(***************************************************************************)
(* The impersonation gate: every handler for a client with any            *)
(* credential, on every build, as root or not, with the console-user       *)
(* policy on or off.  The requests are well formed, and the guest has no   *)
(* pid to give: a launch goes as far as ProcMgr_ExecAsync.                 *)
(***************************************************************************)
\* Requests that are well formed for some handler: one path, two paths,
\* three empty strings.
TwoPaths == Request(<<1, 0, 1>>, 1, 0, 0, 0)
NoStrings == Request(<<0, 0, 0>>, 0, 0, 0, 0)

InitGate == Boot(Platforms, BOOLEAN, {"NULL"}, Credentials, {ProgramOnly, TwoPaths, NoStrings})

GateStartProgram == VixTools_StartProgram(message, credential, "cmdA", 0, {})

GateRunProgram ==
  \E runAsLocalSystem \in BOOLEAN, isAdmin \in BOOLEAN :
    VixTools_RunProgram(message, credential, "cmdA", FALSE, runAsLocalSystem,
                        isAdmin, 0, -1, {})

GateRunScript == VixToolsRunScript(message, credential, "cmdA", FALSE, 0, {})

GateListProcessesEx ==
  \E procList \in LiveLists(asyncProcs) \cup {<<>>} :
    VixToolsListProcessesEx(credential, <<>>, procList)

KillProcess ==
  \E pid \in KillPids, killed \in BOOLEAN : VixToolsKillProcess(credential, pid, killed)

CheckUserAccount == VixToolsCheckUserAccount(credential)

SetFileAttributes == VixToolsSetFileAttributes(message, credential)

CreateTempFile ==
  \E opCode \in TempFileOpCodes : VixToolsCreateTempFile(opCode, message, credential)

MoveObject == \E wild \in Bytes, wild2 \in Bytes : VixToolsMoveObject(message, credential, wild, wild2)

ListFiles == \E wild \in Bytes : VixToolsListFiles(message, credential, wild, listing, MinDigits)

DeleteObject ==
  \E opCode \in DeleteObjectOpCodes, wild \in Bytes :
    VixToolsDeleteObject(opCode, message, credential, wild)

SetConsoleUserPolicy == \E allow \in BOOLEAN : VixTools_SetConsoleUserPolicy(allow)

NextGate ==
  \/ GateStartProgram
  \/ GateRunProgram
  \/ GateRunScript
  \/ GateListProcessesEx
  \/ KillProcess
  \/ CheckUserAccount
  \/ SetFileAttributes
  \/ CreateTempFile
  \/ MoveObject
  \/ ListFiles
  \/ DeleteObject
  \/ SetConsoleUserPolicy

SpecGate == InitGate /\ [][NextGate]_vars

(***************************************************************************)
(* The request decoders: every handler that takes strings out of the       *)
(* request, for a client that sends any body of the bounded size, with a   *)
(* credential that passes the gate or one that does not.                   *)
(***************************************************************************)
InitDecode == Boot(Platforms, {TRUE}, {"NULL"}, {UserCred, BadCred}, Requests)

DecodeStartProgram ==
  \E wild \in Bytes : VixTools_StartProgram(message, credential, "cmdA", wild, {})

DecodeRunProgram ==
  \E wild \in Bytes, garbage \in UninitializedPids :
    VixTools_RunProgram(message, credential, "cmdA", FALSE, FALSE, FALSE, wild, garbage, {})

DecodeRunScript ==
  \E wild \in Bytes : VixToolsRunScript(message, credential, "cmdA", FALSE, wild, {})

NextDecode ==
  \/ DecodeStartProgram
  \/ DecodeRunProgram
  \/ DecodeRunScript
  \/ MoveObject
  \/ ListFiles
  \/ SetFileAttributes
  \/ CreateTempFile

SpecDecode == InitDecode /\ [][NextDecode]_vars

(***************************************************************************)
(* Launches of both flavors: tracked launches, fire-and-report launches    *)
(* and scripts of a well-formed request by the agent running as root on    *)
(* linux with a completion sink registered, their children and their       *)
(* timers.  The request names a program, with or without a working         *)
(* directory.                                                              *)
(***************************************************************************)
InitLaunch == Boot({"linux"}, {TRUE}, {"sinkA"}, {UserCred}, {ProgramOnly, ProgramInDir})

NextLaunch ==
  \/ StartProgram
  \/ RunProgram
  \/ RunScript
  \/ ChildExits
  \/ MonitorAsyncProc
  \/ MonitorStartProgram

SpecLaunch == InitLaunch /\ [][NextLaunch]_vars

(***************************************************************************)
(* The sweep of VixToolsUpdateExitedProgramList as a function of the       *)
(* registry and the clock: VixToolsUpdateExitedProgramList(NULL) applied   *)
(* to any registry of the bounded size, running and terminal entries with  *)
(* end times around the reap time, as the clock advances.                  *)
(***************************************************************************)
RegistryEntries ==
  {VixToolsExitedProgramState("name", "user", p, st, 0, et, r) :
     p \in ChildPids,
     st \in {0, Epoch - VIX_TOOLS_EXITED_PROGRAM_REAP_TIME - 1},
     et \in {Epoch - VIX_TOOLS_EXITED_PROGRAM_REAP_TIME - 1,
             Epoch - VIX_TOOLS_EXITED_PROGRAM_REAP_TIME,
             Epoch - VIX_TOOLS_EXITED_PROGRAM_REAP_TIME + 1},
     r \in BOOLEAN}

Registries == UNION {[1..k -> RegistryEntries] : k \in 0..MaxEntries}

InitReap ==
  /\ platform = "linux"
  /\ credential = UserCred
  /\ message = ProgramOnly
  /\ thisProcessRunsAsRoot = TRUE
  /\ allowConsoleUserOps = FALSE
  /\ reportProgramDoneProc = "NULL"
  /\ userEnvironmentTable = "NULL"
  /\ environ = [process |-> AgentEnviron, table |-> EmptyTable]
  /\ listing = PlainListing
  /\ now = Epoch
  /\ nticks = 0
  /\ exitedProcessList \in Registries
  /\ asyncProcs = <<>>
  /\ doneCalls = <<>>
  /\ secContext = "agent"
  /\ openTokens = 0
  /\ lastOp = "none"
  /\ lastErr = VIX_OK
  /\ lastLog = <<>>
  /\ lastCalls = <<>>
  /\ lastReq = <<>>
  /\ lastResult = ""
  /\ lastViews = <<>>

\* VixToolsUpdateExitedProgramList(NULL).  The step keeps the registry it
\* was given, the time it read, and whether the step before it was a sweep
\* too.
ReapSweep ==
  /\ exitedProcessList' = VixToolsUpdateExitedProgramList(exitedProcessList, <<>>, now)
  /\ Decoded("VixToolsUpdateExitedProgramList",
             [list |-> exitedProcessList, now |-> now,
              again |-> lastOp = "VixToolsUpdateExitedProgramList"],
             VIX_OK, <<>>, "", <<>>)
  /\ UNCHANGED <<config, clock, asyncProcs, doneCalls>>

NextReap ==
  \/ ReapSweep
  \/ TimePasses

SpecReap == InitReap /\ [][NextReap]_vars

(***************************************************************************)
(* The recording of an exit as a function of the registry: the record that *)
(* VixToolsMonitorStartProgram builds (1356-1378) handed to                *)
(* VixToolsUpdateExitedProgramList, for any registry of the bounded size,  *)
(* with or without an entry for the pid.                                   *)
(***************************************************************************)
RecordedExitCodes == ExitCodes \cup {-1}

\* The step keeps the registry it was given, the record and the time.
RecordExit ==
  \E pid \in ChildPids, exitCode \in RecordedExitCodes :
    LET exitState == VixToolsExitedProgramState("NULL", "NULL", pid, 0, exitCode, now, FALSE)
    IN /\ exitedProcessList' =
            VixToolsUpdateExitedProgramList(exitedProcessList, <<exitState>>, now)
       /\ Decoded("RecordExit",
                  [list |-> exitedProcessList, state |-> exitState, now |-> now],
                  VIX_OK, <<"VixToolsUpdateExitedProgramList">>, "", <<>>)
       /\ UNCHANGED <<config, clock, asyncProcs, doneCalls>>

NextRecord ==
  \/ RecordExit
  \/ TimePasses

SpecRecord == InitReap /\ [][NextRecord]_vars

(***************************************************************************)
(* VixToolsListProcessesEx as a function of the registry and the clock:    *)
(* the listing of any registry of the bounded size, terminal entries of    *)
(* every age included, against the live lists of the guest.                *)
(***************************************************************************)
ListedLiveLists == {<<>>, <<SelfPid>>, <<SelfPid, 7>>}

ListRegistry ==
  \E pids \in PidFilters, procList \in ListedLiveLists :
    VixToolsListProcessesEx(credential, pids, procList)

NextList ==
  \/ ListRegistry
  \/ TimePasses

SpecList == InitReap /\ [][NextList]_vars

(***************************************************************************)
(* The dispatcher: every case the model has a handler for and the default  *)
(* case, for a client whose credential passes the gate or does not and     *)
(* whose request names a program or holds empty strings, on linux and on   *)
(* win32, for an agent that was or was not given a list of environment     *)
(* variables.                                                              *)
(***************************************************************************)
InitDispatch ==
  VixTools_Initialize({"linux", "win32"}, {TRUE}, {"NULL", "originalEnvp"}, {"sinkA"},
                      {UserCred, BadCred}, {ProgramOnly, NoStrings})

DispatchRunProgram ==
  \E garbage \in UninitializedPids :
    VixTools_RunProgram(message, credential, NextRequestName, FALSE, FALSE, FALSE,
                        0, garbage, Lowest(Available))

ReadVariable ==
  \E variableType \in VariableTypes, valueName \in EnvNames :
    VixToolsReadVariable(credential, variableType, valueName)

ObjectExists ==
  \E opCode \in ObjectExistsOpCodes, exists \in BOOLEAN :
    VixToolsObjectExists(opCode, message, credential, 0, exists)

GetFileInfo == \E exists \in BOOLEAN : VixToolsGetFileInfo(message, credential, 0, exists)

ProcessHgfsPacket ==
  \E hgfsPacketSize \in PacketSizes, replySize \in PacketSizes :
    VixToolsProcessHgfsPacket(credential, hgfsPacketSize, replySize)

UnrecognizedOpCode == \E opCode \in UnrecognizedOpCodes : DefaultCase(opCode)

NextDispatch ==
  \/ StartProgram
  \/ DispatchRunProgram
  \/ RunScript
  \/ ListProcessesEx
  \/ KillProcess
  \/ CheckUserAccount
  \/ CreateTempFile
  \/ ListFiles
  \/ ReadVariable
  \/ ObjectExists
  \/ GetFileInfo
  \/ ProcessHgfsPacket
  \/ UnrecognizedOpCode

SpecDispatch == InitDispatch /\ [][NextDispatch]_vars

(***************************************************************************)
(* The environment: a client that writes and reads environment variables   *)
(* and launches programs and scripts, with a credential that passes the    *)
(* gate or does not, on linux, for an agent that was or was not given a    *)
(* list of environment variables and that may be initialized again.        *)
(***************************************************************************)
InitEnv ==
  VixTools_Initialize({"linux"}, {TRUE}, {"NULL", "originalEnvp"}, {"sinkA"},
                      {UserCred, BadCred}, {ProgramOnly})

SetEnvResults == {0, -1}

\* An environment variable and a variable of a kind the guest does not hold.
WrittenVariableTypes == {"VIX_GUEST_ENVIRONMENT_VARIABLE", "VIX_GUEST_CONFIG"}

WriteVariable ==
  \E variableType \in WrittenVariableTypes, valueName \in EnvNames, value \in EnvValues,
     parsed \in BOOLEAN, hasAdminPriv \in BOOLEAN, setEnvResult \in SetEnvResults :
    VixToolsWriteVariable(credential, variableType, valueName, value, parsed,
                          hasAdminPriv, setEnvResult)

\* One launch, of a program or of a script, in a behaviour.
EnvRunProgram == Len(asyncProcs) < MaxEnvLaunches /\ DispatchRunProgram

EnvRunScript == Len(asyncProcs) < MaxEnvLaunches /\ RunScript

NextEnv ==
  \/ WriteVariable
  \/ ReadVariable
  \/ EnvRunProgram
  \/ EnvRunScript
  \/ Reinitialize

SpecEnv == InitEnv /\ [][NextEnv]_vars

(***************************************************************************)
(* The file listing: a client that lists directories of up to MaxFiles     *)
(* names, with and without a pattern, from every start position, with      *)
(* every limit and with result buffers that hold none, one, two or all of  *)
(* the entries, on linux.                                                  *)
(***************************************************************************)
WithPattern == Request(<<1, 0, 1, 0>>, 1, 1, 0, 0)

FileNames == {<<"a">>, <<"x">>, <<"a", "b">>}
FileNameLists == UNION {[1..k -> FileNames] : k \in 0..MaxFiles}
BufferSizes == {4, 260, 510, 1000}

Listings ==
  {Listing(names, offset, index, maxResults, "a", maxBufferSize) :
     names \in FileNameLists, offset \in 0..1, index \in 0..1,
     maxResults \in 0..MaxFiles, maxBufferSize \in BufferSizes}

InitFiles ==
  /\ Started({"linux"}, {TRUE}, {"NULL"}, {"sinkA"}, {UserCred, BadCred},
             {ProgramOnly, WithPattern})
  /\ listing \in Listings

\* An agent that Str_Sprintf did not return to takes no further request.
ListDirectory ==
  /\ lastErr # "Panic"
  /\ \E wild \in Bytes, digits \in {MinDigits, MaxDigits} :
       VixToolsListFiles(message, credential, wild, listing, digits)

NextFiles == ListDirectory

SpecFiles == InitFiles /\ [][NextFiles]_vars

(***************************************************************************)
(* Properties of the registry.                                             *)
(***************************************************************************)
HasLog(ev) == \E k \in 1..Len(lastLog) : lastLog[k] = ev

\* The step that was just taken ran VixToolsUpdateExitedProgramList.
RegistryUpdated ==
  \/ lastOp' = "ListProcessesEx" /\ lastErr' = VIX_OK
  \/ lastOp' = "StartProgram" /\ lastErr' = VIX_OK
  \/ \E i \in 1..Len(asyncProcs) :
       /\ lastOp' = "VixToolsMonitorStartProgram"
       /\ asyncProcs[i].freed = 0
       /\ asyncProcs'[i].freed = 1

\* C1: after any sequence of tracked launches, exit recordings and reaps,
\* pid reuse included, the registry holds at most one entry for any pid.
C1_OneEntryPerPid ==
  \A i, j \in 1..Len(exitedProcessList) :
    exitedProcessList[i].pid = exitedProcessList[j].pid => i = j

\* C2: when the timer of a tracked launch finds that its process has exited
\* with code c and records the exit, the registry holds an entry for that
\* pid with exitCode = c and isRunning = FALSE.
C2_ExitRecorded ==
  [][\A i \in 1..Len(asyncProcs) :
       (/\ lastOp' = "VixToolsMonitorStartProgram"
        /\ asyncProcs[i].freed = 0
        /\ asyncProcs'[i].freed = 1)
       => \E k \in 1..Len(exitedProcessList') :
            /\ exitedProcessList'[k].pid = asyncProcs[i].pid
            /\ exitedProcessList'[k].exitCode = ProcMgr_GetExitCode(asyncProcs[i])
            /\ exitedProcessList'[k].isRunning = FALSE]_vars

\* C3: a registry update or a ListProcessesEx that runs more than
\* VIX_TOOLS_EXITED_PROGRAM_REAP_TIME seconds after the end time of an entry
\* removes the entry.
C3_OldEntriesRemoved ==
  [][RegistryUpdated
       => \A k \in 1..Len(exitedProcessList') :
            ~(/\ exitedProcessList'[k].endTime > 0
              /\ exitedProcessList'[k].endTime < now' - VIX_TOOLS_EXITED_PROGRAM_REAP_TIME)]_vars

(***************************************************************************)
(* Properties of the fire-and-report engine.                               *)
(***************************************************************************)
IsFireAndReport(i) == asyncProcs[i].flavor \in {"run", "script"}

\* The timer of launch i has just found the process terminated.
TerminationObserved(i) ==
  /\ IsFireAndReport(i)
  /\ asyncProcs[i].freed = 0
  /\ asyncProcs'[i].freed = 1

\* The one invocation the sink registered at that time is owed.
OwedCall(i) ==
  [sink |-> reportProgramDoneProc, requestName |-> asyncProcs[i].requestName,
   err |-> VIX_OK,
   exitCode |-> IF asyncProcs[i].normalExit THEN asyncProcs[i].exitStatus ELSE -1,
   pid |-> asyncProcs[i].pid]

\* C10: for every fire-and-report launch that was started and whose process
\* terminates, the timer observes the termination, once, and at that moment
\* the registered sink is invoked exactly once with the launch's correlation
\* name, exit code and pid, and not at all when the launch asked for
\* VIX_RUNPROGRAM_RETURN_IMMEDIATELY; the sink is invoked at no other time.
C10_ReportedOnce ==
  /\ [][\A i \in 1..Len(asyncProcs) :
          TerminationObserved(i)
          => doneCalls' = doneCalls \o
               (IF asyncProcs[i].returnImmediately \/ reportProgramDoneProc = "NULL"
                  THEN <<>> ELSE <<OwedCall(i)>>)]_vars
  /\ [][doneCalls' # doneCalls
          => \E i \in 1..Len(asyncProcs) : TerminationObserved(i)]_vars
  /\ [][\A i \in 1..Len(asyncProcs) : asyncProcs[i].freed = 1
          => asyncProcs'[i].freed = 1]_vars
  /\ \A i \in 1..MaxLaunches :
       (i <= Len(asyncProcs) /\ ~asyncProcs[i].running)
       ~> (i <= Len(asyncProcs) /\ asyncProcs[i].freed = 1)

\* Two launches were observed terminated, one that reports and one that
\* returned immediately, and the sink was invoked once.
C10_Witness ==
  \E i, j \in 1..Len(asyncProcs) :
    /\ asyncProcs[i].freed = 1 /\ ~asyncProcs[i].returnImmediately
    /\ asyncProcs[j].freed = 1 /\ asyncProcs[j].returnImmediately
    /\ Len(doneCalls) = 1
    /\ doneCalls[1].requestName = asyncProcs[i].requestName
    /\ doneCalls[1].exitCode = 3

(***************************************************************************)
(* Properties of the impersonation gate.                                   *)
(***************************************************************************)
Dispatches == {"StartProgram", "RunProgram", "RunScript", "ListProcessesEx",
               "KillProcess", "CheckUserAccount", "SetFileAttributes",
               "CreateTempFile", "MoveObject", "ListFiles", "DeleteObject"}

\* C4: after every dispatch, whatever the handler, the credential and the
\* outcome, the agent runs in the security context it had before: its own.
C4_ContextRestored == secContext = "agent"

\* A launch on win32 that impersonated, forced root around ProcMgr_ExecAsync
\* and failed, has returned.
C4_Witness ==
  /\ lastOp \in {"StartProgram", "RunProgram", "RunScript"}
  /\ HasLog("ImpersonateStart")
  /\ HasLog("Impersonate_UnforceRoot")
  /\ lastErr = VIX_E_PROGRAM_NOT_STARTED

\* C5 as the specification states it: in every dispatch the releases of an
\* identity handle (Auth_CloseToken) are as many as the impersonate calls
\* that succeeded with a token that is not the sentinel.
C5_ReleasesMatchImpersonations ==
  lastOp \in Dispatches
  => CountOf("Auth_CloseToken", lastLog) = CountOf("ImpersonateStart", lastLog)

\* C5, amended: in every dispatch the releases of an identity handle are as
\* many as the handles Auth_AuthenticateUser gave, whether or not the
\* impersonation that followed succeeded, and no handle stays open.
C5_ReleasesMatchHandles ==
  /\ openTokens = 0
  /\ lastOp \in Dispatches
     => CountOf("Auth_CloseToken", lastLog) = CountOf("Auth_Opened", lastLog)

\* A dispatch got a handle, failed to impersonate, and released the handle.
C5_Witness ==
  /\ lastOp = "CheckUserAccount"
  /\ HasLog("ImpersonateStartFailed")
  /\ HasLog("Auth_CloseToken")
  /\ lastErr # VIX_OK

(***************************************************************************)
(* Properties of VixToolsKillProcess.                                      *)
(***************************************************************************)
\* The pids the specification names: the agent, 0, -1, minus its group.
SelfTargets == {SelfPid, 0, -1, -SelfPgrp}

\* The pids the build refuses to kill.
RefusedTargets == IF platform = "win32" THEN {SelfPid} ELSE SelfTargets

KillOf(pids) == lastOp = "KillProcess" /\ lastReq.pid \in pids

\* C6 as the specification states it: a kill request for the agent's pid, 0,
\* -1 or minus the agent's process group never reaches ProcMgr_KillByPid.
C6_SelfKillNeverExecuted == KillOf(SelfTargets) => ~HasLog("ProcMgr_KillByPid")

\* C6, amended: on the builds other than win32 a kill request for the
\* agent's pid, 0, -1 or minus the agent's process group never reaches
\* ProcMgr_KillByPid, whatever the credential; on win32 a kill request for
\* the agent's pid never does.
C6_RefusedKillNeverExecuted == KillOf(RefusedTargets) => ~HasLog("ProcMgr_KillByPid")

\* An impersonated user asked to kill the agent's process group on linux.
C6_Witness ==
  /\ KillOf({-SelfPgrp})
  /\ platform = "linux"
  /\ HasLog("ImpersonateStart")
  /\ lastErr = VIX_E_GUEST_USER_PERMISSIONS

Field(off, term) == [off |-> off, term |-> term]

DeclaredFields(op, req) ==
  CASE op = "RunProgram" ->
         <<Field(0, req.l1)>>
         \o (IF req.l2 > 0 THEN <<Field(req.l1 + 1, req.l1 + 1 + req.l2)>> ELSE <<>>)
    [] op = "StartProgram" ->
         <<Field(0, req.l1 - 1)>>
         \o (IF req.l2 > 0 THEN <<Field(req.l1, req.l1 + req.l2 - 1)>> ELSE <<>>)
         \o (IF req.l3 > 0
               THEN <<Field(req.l1 + req.l2, req.l1 + req.l2 + req.l3 - 1)>>
               ELSE <<>>)
    [] op = "RunScript" ->
         <<Field(0, req.l1),
           Field(req.l1 + 1, req.l1 + 1 + req.l2),
           Field(req.l1 + 1 + req.l2 + 1, req.l1 + 1 + req.l2 + 1 + req.l3)>>
    [] op = "MoveObject" ->
         <<Field(0, req.l1), Field(req.l1 + 1, req.l1 + 1 + req.l2)>>
    [] op = "ListFiles" ->
         <<Field(0, req.l1)>>
         \o (IF req.l2 > 0 THEN <<Field(req.l1 + 1, req.l1 + 1 + req.l2)>> ELSE <<>>)

FieldDecoders == {"RunProgram", "StartProgram", "RunScript", "MoveObject", "ListFiles"}

\* A declared length overruns the buffer.
Overruns(op, req) ==
  \E k \in 1..Len(DeclaredFields(op, req)) :
    DeclaredFields(op, req)[k].term >= Len(req.data)

\* A field lacks its terminator at the declared offset.
LacksTerminator(op, req) ==
  \E k \in 1..Len(DeclaredFields(op, req)) :
    LET f == DeclaredFields(op, req)[k]
    IN f.term >= 0 /\ f.term < Len(req.data) /\ req.data[f.term + 1] # 0

ViewBeyondBuffer ==
  \E k \in 1..Len(lastViews) : Beyond(lastReq.req, lastViews[k].off)

\* C8: a request to run program, start program, move/rename, run script or
\* list files whose declared length overruns the buffer, or whose field
\* lacks its terminator at the declared offset, fails with
\* VIX_E_INVALID_MESSAGE_BODY, and no view beyond the end of the buffer is
\* formed.
C8_MalformedRejected ==
  (/\ lastOp \in FieldDecoders
   /\ Overruns(lastOp, lastReq.req) \/ LacksTerminator(lastOp, lastReq.req))
  => /\ lastErr = VIX_E_INVALID_MESSAGE_BODY
     /\ ~ViewBeyondBuffer

\* The request for which the length-checked decoders may proceed.
ValidSetFileAttributes(req) ==
  /\ Len(req.data) = req.l1 + 1
  /\ req.data[req.l1 + 1] = 0

ValidTempFileEx(req) ==
  /\ Len(req.data) = req.l1 + 1 + req.l2 + 1 + req.l3 + 1 + req.l4
  /\ req.data[req.l1 + 1] = 0
  /\ req.data[req.l1 + 1 + req.l2 + 1] = 0
  /\ req.data[req.l1 + 1 + req.l2 + 1 + req.l3 + 1] = 0

\* The last dispatch was a length-checked decoder with a request that is
\* not valid for it.
InvalidSetFileAttributes ==
  lastOp = "SetFileAttributes" /\ ~ValidSetFileAttributes(lastReq.req)

InvalidTempFileEx ==
  /\ lastOp = "CreateTempFile"
  /\ lastReq.opCode # "CREATE_TEMPORARY_FILE"
  /\ ~ValidTempFileEx(lastReq.req)

\* What a handler does once it proceeds with a file.
FileEvents == {"File_Exists", "File_SetTimes", "FileModified",
               "File_SetFilePermissions", "Posix_Chown", "Win32U_SetFileAttributes",
               "File_GetTmpDir", "VixToolsGetUserTmpDir", "File_MakeTempEx2",
               "TempFileCreated"}

Proceeded == \E k \in 1..Len(lastLog) : lastLog[k] \in FileEvents

\* C9 as stated: VixToolsSetFileAttributes and the extended decode of
\* VixToolsGetTempFile proceed only for valid requests; every other request
\* is rejected with VIX_E_INVALID_MESSAGE_BODY and no file is created or
\* modified.
C9_InvalidRejectedAsMalformed ==
  (InvalidSetFileAttributes \/ InvalidTempFileEx)
  => lastErr = VIX_E_INVALID_MESSAGE_BODY /\ ~Proceeded

\* C9, amended: the two decoders proceed only for valid requests and no
\* other request creates or modifies a file; the error of the rejection is
\* VIX_E_INVALID_MESSAGE_BODY, except that VixToolsSetFileAttributes answers
\* VIX_E_NOT_SUPPORTED on a build that is neither win32 nor linux and
\* VIX_E_INVALID_ARG when the size matches and the path starts with NUL,
\* and that VixToolsCreateTempFile answers the error of the impersonation
\* when the credential does not pass, the decoding coming after it.
C9_InvalidRejected ==
  /\ InvalidSetFileAttributes
     => /\ ~Proceeded
        /\ lastErr =
             IF platform \notin {"win32", "linux"} THEN VIX_E_NOT_SUPPORTED
             ELSE IF Len(lastReq.req.data) = lastReq.req.l1 + 1
                     /\ lastReq.req.data[1] = 0
               THEN VIX_E_INVALID_ARG
             ELSE VIX_E_INVALID_MESSAGE_BODY
  /\ InvalidTempFileEx
     => /\ ~Proceeded
        /\ lastErr = IF GateOf(lastReq.cred).err # VIX_OK
                       THEN GateOf(lastReq.cred).err
                       ELSE VIX_E_INVALID_MESSAGE_BODY

\* An extended create-temp request of the right size whose directoryPath
\* has no terminator, from a client that passes the gate, was rejected.
C9_Witness ==
  /\ InvalidTempFileEx
  /\ GateOf(lastReq.cred).err = VIX_OK
  /\ Len(lastReq.req.data) = lastReq.req.l1 + 1 + lastReq.req.l2 + 1
                             + lastReq.req.l3 + 1 + lastReq.req.l4
  /\ lastReq.req.data[lastReq.req.l1 + 1] = 0
  /\ lastReq.req.data[lastReq.req.l1 + 1 + lastReq.req.l2 + 1] = 0
  /\ lastErr = VIX_E_INVALID_MESSAGE_BODY
  /\ ~Proceeded

(***************************************************************************)
(* Properties of the launches.                                             *)
(***************************************************************************)
\* The timer of launch i, of either flavor, has just found the process
\* terminated.
MonitorObservedTermination(i) ==
  /\ lastOp' \in {"VixToolsMonitorAsyncProc", "VixToolsMonitorStartProgram"}
  /\ asyncProcs[i].freed = 0
  /\ asyncProcs'[i].freed = 1

\* C11: for every launch of either flavor ProcMgr_GetExitCode is called at
\* most once, exactly once when the monitor observes the termination, and
\* never while the process still runs.
C11_ExitCodeRetrievedOnce ==
  /\ [](\A i \in 1..Len(asyncProcs) : asyncProcs[i].exitCodeCalls <= 1)
  /\ [][\A i \in 1..Len(asyncProcs) :
          /\ MonitorObservedTermination(i)
             => asyncProcs'[i].exitCodeCalls = 1
          /\ asyncProcs'[i].exitCodeCalls # asyncProcs[i].exitCodeCalls
             => /\ ~asyncProcs[i].running
                /\ MonitorObservedTermination(i)]_vars

\* A launch of each flavor whose exit status was retrieved, and one whose
\* process still runs.
C11_Witness ==
  /\ Len(asyncProcs) = 2
  /\ asyncProcs[1].flavor = "start" /\ asyncProcs[1].exitCodeCalls = 1
  /\ asyncProcs[2].flavor = "run" /\ asyncProcs[2].running
  /\ asyncProcs[2].exitCodeCalls = 0

(***************************************************************************)
(* Properties of the sweep.                                                *)
(***************************************************************************)
Swept == lastOp = "VixToolsUpdateExitedProgramList"

\* The entries a sweep at time t must keep.
Retained(e, t) ==
  e.isRunning \/ e.endTime >= t - VIX_TOOLS_EXITED_PROGRAM_REAP_TIME

\* C12: a sweep at time now removes a terminal entry with endTime =
\* now - 300 - 1 and retains one with endTime = now - 300 + 1; it removes
\* exactly the entries with isRunning = FALSE and endTime < now - 300 and
\* keeps every other entry in its original relative order.
C12_SweepRemovesExactlyOld ==
  Swept =>
    /\ exitedProcessList = SelectSeq(lastReq.list, LAMBDA e : Retained(e, lastReq.now))
    /\ \A k \in 1..Len(exitedProcessList) :
         ~(/\ ~exitedProcessList[k].isRunning
           /\ exitedProcessList[k].endTime
                = lastReq.now - VIX_TOOLS_EXITED_PROGRAM_REAP_TIME - 1)
    /\ \A k \in 1..Len(lastReq.list) :
         (/\ ~lastReq.list[k].isRunning
          /\ lastReq.list[k].endTime
               = lastReq.now - VIX_TOOLS_EXITED_PROGRAM_REAP_TIME + 1)
         => \E j \in 1..Len(exitedProcessList) : exitedProcessList[j] = lastReq.list[k]

\* A sweep was given a terminal entry one second past the reap time in
\* front of a terminal entry one second short of it, and kept the second.
C12_Witness ==
  /\ Swept
  /\ Len(lastReq.list) = 2
  /\ ~lastReq.list[1].isRunning
  /\ lastReq.list[1].endTime = lastReq.now - VIX_TOOLS_EXITED_PROGRAM_REAP_TIME - 1
  /\ ~lastReq.list[2].isRunning
  /\ lastReq.list[2].endTime = lastReq.now - VIX_TOOLS_EXITED_PROGRAM_REAP_TIME + 1
  /\ exitedProcessList = <<lastReq.list[2]>>

\* C13: an entry with isRunning = TRUE is never removed by a sweep, whatever
\* the time and whatever its startTime and endTime hold: the running entries
\* the sweep was given are the running entries it leaves, in their order.
C13_RunningNeverRemoved ==
  Swept =>
    SelectSeq(exitedProcessList, LAMBDA e : e.isRunning)
      = SelectSeq(lastReq.list, LAMBDA e : e.isRunning)

\* A sweep was given a running entry whose endTime is past the reap time,
\* behind a terminal entry that it removed, and kept it.
C13_Witness ==
  /\ Swept
  /\ Len(lastReq.list) = 2
  /\ ~lastReq.list[1].isRunning
  /\ lastReq.list[2].isRunning
  /\ lastReq.list[2].endTime < lastReq.now - VIX_TOOLS_EXITED_PROGRAM_REAP_TIME
  /\ lastReq.list[2].startTime < lastReq.now - VIX_TOOLS_EXITED_PROGRAM_REAP_TIME
  /\ exitedProcessList = <<lastReq.list[2]>>

\* C14: a sweep that follows a sweep, with the same now and no new record
\* between the two, removes nothing: the registry after the second equals
\* the registry after the first.
C14_SweepIdempotent ==
  (Swept /\ lastReq.again) => exitedProcessList = lastReq.list

\* A second sweep in a row ran, after the clock had advanced, on a registry
\* that holds a running entry and a terminal entry exactly the reap time old.
C14_Witness ==
  /\ Swept
  /\ lastReq.again
  /\ lastReq.now > Epoch
  /\ \E k \in 1..Len(exitedProcessList) :
       /\ ~exitedProcessList[k].isRunning
       /\ exitedProcessList[k].endTime = lastReq.now - VIX_TOOLS_EXITED_PROGRAM_REAP_TIME
  /\ \E k \in 1..Len(exitedProcessList) : exitedProcessList[k].isRunning

\* The last step was a launch of one of the two flavors.
Launched == lastOp \in {"StartProgram", "RunProgram"}

\* What a launch that creates a process, or goes on to try, leaves in the
\* log.
LaunchEvents == {"ProcMgr_ExecAsync", "ProcessCreated", "g_source_attach"}

NoLaunchEvent == \A k \in 1..Len(lastLog) : lastLog[k] \notin LaunchEvents

\* C15: a launch of either flavor whose program does not exist fails with
\* VIX_E_FILE_NOT_FOUND, one whose program may not be executed fails with
\* VIX_E_GUEST_USER_PERMISSIONS, and a tracked launch whose working directory
\* is not a directory fails with VIX_E_NOT_A_DIRECTORY; in each case no
\* process is created, no timer is armed, and the launch records and the
\* registry are as they were.
C15_FailedChecksLaunchNothing ==
  [][(Launched /\ (HasLog("ProgramMissing") \/ HasLog("ProgramNotExecutable")
                   \/ HasLog("WorkingDirNotADirectory")))'
       => /\ (HasLog("ProgramMissing") => lastErr = VIX_E_FILE_NOT_FOUND)'
          /\ (HasLog("ProgramNotExecutable") => lastErr = VIX_E_GUEST_USER_PERMISSIONS)'
          /\ (HasLog("WorkingDirNotADirectory") => lastErr = VIX_E_NOT_A_DIRECTORY)'
          /\ NoLaunchEvent'
          /\ lastResult' = -1
          /\ asyncProcs' = asyncProcs
          /\ exitedProcessList' = exitedProcessList
          /\ doneCalls' = doneCalls]_vars

\* A tracked launch in a working directory that is not one failed, with an
\* earlier launch and its registry entry in place.
C15_Witness ==
  /\ lastOp = "StartProgram"
  /\ HasLog("WorkingDirNotADirectory")
  /\ lastErr = VIX_E_NOT_A_DIRECTORY
  /\ Len(asyncProcs) = 1
  /\ Len(exitedProcessList) = 1

\* C16: a launch enters Running (a pid reported, a timer armed, a launch
\* record, for the tracked flavor a registry entry) only if
\* ProcMgr_ExecAsync returned a handle; when it returned none the launch
\* fails with VIX_E_PROGRAM_NOT_STARTED, the pid reported is -1, and no
\* timer, completion call or registry entry results from it.
C16_RunningOnlyWithHandle ==
  [][/\ (Launched /\ HasLog("ProcMgr_ExecAsync") /\ ~HasLog("ProcessCreated"))'
        => /\ lastErr' = VIX_E_PROGRAM_NOT_STARTED
           /\ lastResult' = -1
           /\ ~HasLog("g_source_attach")'
           /\ asyncProcs' = asyncProcs
           /\ exitedProcessList' = exitedProcessList
           /\ doneCalls' = doneCalls
     /\ (/\ Launched'
         /\ \/ lastResult' \in ChildPids
            \/ HasLog("g_source_attach")'
            \/ asyncProcs' # asyncProcs
            \/ exitedProcessList' # exitedProcessList)
        => /\ HasLog("ProcessCreated")'
           /\ lastErr' = VIX_OK
           /\ lastResult' \in ChildPids
           /\ HasLog("g_source_attach")'
           /\ Len(asyncProcs') = Len(asyncProcs) + 1
           /\ asyncProcs'[Len(asyncProcs')].pid = lastResult'
           /\ lastOp' = "StartProgram"
              => \E k \in 1..Len(exitedProcessList') :
                   /\ exitedProcessList'[k].pid = lastResult'
                   /\ exitedProcessList'[k].isRunning]_vars

\* A tracked launch for which ProcMgr_ExecAsync returned no handle failed,
\* after a launch that had entered Running.
C16_Witness ==
  /\ lastOp = "StartProgram"
  /\ HasLog("ProcMgr_ExecAsync")
  /\ ~HasLog("ProcessCreated")
  /\ lastErr = VIX_E_PROGRAM_NOT_STARTED
  /\ lastResult = -1
  /\ Len(asyncProcs) = 1
  /\ asyncProcs[1].running

(***************************************************************************)
(* Properties of the dispatcher's result.                                  *)
(***************************************************************************)
Dispatched == lastOp \in DispatchedHandlers

\* C17: whenever the dispatcher reports the result buffer as caller-owned
\* the buffer is heap storage, and whenever it reports it as not owned the
\* buffer is static or literal storage, for every case, on success and on
\* every error path.
C17_OwnershipMatchesStorage ==
  Dispatched =>
    IF Returned.deleteResultBufferResult
      THEN Returned.resultBuffer.storage = "heap"
      ELSE Returned.resultBuffer.storage \in {"static", "literal"}

\* C18: whenever the dispatcher returns a failure status the result it
\* returns is empty: its length is 0.
C18_FailureHasEmptyResult ==
  (Dispatched /\ lastErr # VIX_OK) => Returned.resultLen = 0

\* C19: the dispatch of an opcode that no case recognizes returns VIX_OK
\* with the empty literal, length 0, not caller-owned, calls no collaborator
\* (no impersonation, no OS action) and leaves the registry, the launch
\* records, the completion calls, the security context and the open tokens
\* as they were.
C19_UnrecognizedOpCodeIsEmptySuccess ==
  [][lastOp' = "default" =>
       /\ lastErr' = VIX_OK
       /\ Returned' = Reply(Buffer("literal", 0), 0, FALSE)
       /\ lastLog' = <<>>
       /\ UNCHANGED <<exitedProcessList, asyncProcs, doneCalls, secContext, openTokens>>]_vars

\* An unrecognized opcode was dispatched while a launch is on record and in
\* the registry.
C19_Witness ==
  /\ lastOp = "default"
  /\ lastReq.opCode \in UnrecognizedOpCodes
  /\ asyncProcs # <<>>
  /\ exitedProcessList # <<>>
  /\ Returned.resultLen = 0

(***************************************************************************)
(* Properties of the child's environment.                                  *)
(***************************************************************************)
\* C20: when the environment table exists, every tracked launch runs the
\* child with the environment taken from the table.
C20_TrackedLaunchUsesTable ==
  \A i \in 1..Len(asyncProcs) :
    (userEnvironmentTable # "NULL" /\ asyncProcs[i].flavor = "start") =>
      asyncProcs[i].envp = VixToolsEnvironmentTableToEnvp(userEnvironmentTable)

(***************************************************************************)
(* Properties of the process listing.                                      *)
(***************************************************************************)
Listed == lastOp = "ListProcessesEx" /\ lastErr = VIX_OK

\* C21: in the result of one VixToolsListProcessesEx no process is reported
\* twice: no pid is reported both from the registry and from the live
\* enumeration, and each pid appears in at most one record.
C21_NoProcessReportedTwice ==
  Listed =>
    \A i \in 1..Len(lastResult), j \in 1..Len(lastResult) :
      i # j => lastResult[i].pid # lastResult[j].pid

(***************************************************************************)
(* Properties of the credential kinds.  A VixToolsCheckUserAccount is the  *)
(* gate and the abort label and nothing else: its error is the gate's.     *)
(***************************************************************************)
AccountChecked(type) == lastOp = "CheckUserAccount" /\ credential.type = type

GateEvents == {"DeObfuscate", "DoesUsernameMatchCurrentUser", "Auth_AuthenticateUser",
               "Auth_Opened", "ImpersonateStart", "ImpersonateStartFailed"}

NoGateEvent == \A k \in 1..Len(lastLog) : lastLog[k] \notin GateEvents

\* C22: the system credential is honored, with the sentinel token and with
\* no authentication and no context switch, only when the agent runs with
\* system privilege; otherwise the request fails and no token is returned.
C22_RootCredentialNeedsRoot ==
  AccountChecked("ROOT") =>
    /\ lastErr = GateOf(credential).err
    /\ NoGateEvent
    /\ lastErr = VIX_OK =>
         thisProcessRunsAsRoot /\ GateOf(credential).token = PROCESS_CREATOR_USER_TOKEN
    /\ ~thisProcessRunsAsRoot =>
         lastErr # VIX_OK /\ GateOf(credential).token = TokenNull

\* The system credential was refused to an agent without system privilege.
C22_Witness ==
  /\ AccountChecked("ROOT")
  /\ ~thisProcessRunsAsRoot
  /\ platform = "linux"
  /\ lastErr = VIX_E_NOT_SUPPORTED

\* C23 as the specification states it: the session-owner credential is
\* honored with the sentinel token exactly when console-user operations are
\* enabled or the agent does not run with elevated privilege, and fails with
\* no token otherwise.
C23_ConsoleUserByPolicy ==
  AccountChecked("CONSOLE_USER") =>
    IF allowConsoleUserOps \/ ~thisProcessRunsAsRoot
      THEN lastErr = VIX_OK /\ GateOf(credential).token = PROCESS_CREATOR_USER_TOKEN
      ELSE lastErr # VIX_OK /\ GateOf(credential).token = TokenNull

\* C23: on the builds that have a gate (linux, win32) the session-owner
\* credential is honored with the sentinel token exactly when console-user
\* operations are enabled or the agent does not run with elevated
\* privilege; otherwise, and on FreeBSD always, it fails with no token.
C23_ConsoleUserByPolicyWhereSupported ==
  AccountChecked("CONSOLE_USER") =>
    /\ lastErr = GateOf(credential).err
    /\ IF platform # "freebsd" /\ (allowConsoleUserOps \/ ~thisProcessRunsAsRoot)
         THEN lastErr = VIX_OK /\ GateOf(credential).token = PROCESS_CREATOR_USER_TOKEN
         ELSE lastErr = VIX_E_NOT_SUPPORTED /\ GateOf(credential).token = TokenNull

\* The session owner was honored by an agent that runs with elevated
\* privilege, the policy having been switched on.
C23_Witness ==
  /\ AccountChecked("CONSOLE_USER")
  /\ thisProcessRunsAsRoot
  /\ allowConsoleUserOps
  /\ platform = "win32"
  /\ lastErr = VIX_OK

\* C24: the current-process-owner credential yields a token only if the
\* de-obfuscated name matches the identity that runs the agent; on a
\* mismatch, on a de-obfuscation failure and when the agent runs with system
\* privilege it fails and no token is returned.
C24_InteractiveUserMustMatch ==
  AccountChecked("NAMED_INTERACTIVE_USER") =>
    /\ lastErr = GateOf(credential).err
    /\ GateOf(credential).token # TokenNull =>
         /\ lastErr = VIX_OK
         /\ credential.deobf /\ credential.match
         /\ HasLog("DoesUsernameMatchCurrentUser")
    /\ (~credential.match \/ ~credential.deobf \/ thisProcessRunsAsRoot) =>
         lastErr # VIX_OK /\ GateOf(credential).token = TokenNull

\* A name that de-obfuscates and does not match was refused.
C24_Witness ==
  /\ AccountChecked("NAMED_INTERACTIVE_USER")
  /\ ~thisProcessRunsAsRoot
  /\ platform = "linux"
  /\ credential.deobf /\ ~credential.match
  /\ HasLog("DoesUsernameMatchCurrentUser")
  /\ lastErr = VIX_E_GUEST_USER_PERMISSIONS

\* C25: a credential of none of the recognized kinds fails as unsupported,
\* returns no token and causes no de-obfuscation, no authentication and no
\* context switch.
C25_UnknownKindUnsupported ==
  AccountChecked("OTHER") =>
    /\ lastErr = VIX_E_NOT_SUPPORTED
    /\ GateOf(credential).token = TokenNull
    /\ NoGateEvent
    /\ lastLog = <<>>
    /\ secContext = "agent"

C25_Witness ==
  /\ AccountChecked("OTHER")
  /\ platform = "win32"
  /\ lastErr = VIX_E_NOT_SUPPORTED

\* C26: on win32 a name and password credential with an empty password is
\* always rejected, whatever the identity store answers: no token is
\* granted and nothing is impersonated.
C26_EmptyPasswordRejected ==
  (/\ lastOp = "CheckUserAccount"
   /\ platform = "win32"
   /\ IsNamePassword(credential)
   /\ credential.pwEmpty) =>
    /\ lastErr # VIX_OK
    /\ GateOf(credential).token = TokenNull
    /\ ~HasLog("ImpersonateStart")

(***************************************************************************)
(* Properties of the temporary script file.                                *)
(***************************************************************************)
\* C27: a temporary script file never outlives its launch: it is deleted
\* when the monitor has observed the script terminate, and on every failure
\* branch of VixToolsRunScript that follows its creation.
C27_TempScriptDeleted ==
  /\ \A i \in 1..Len(asyncProcs) :
       (asyncProcs[i].flavor = "script" /\ asyncProcs[i].freed > 0) =>
         asyncProcs[i].tempScript # "exists"
  /\ (lastOp = "RunScript" /\ HasLog("TempFileCreated") /\ lastErr # VIX_OK) =>
       HasLog("File_UnlinkNoFollow")

(***************************************************************************)
(* Properties of the order of impersonation and action.                    *)
(***************************************************************************)
\* The calls of a handler that act on the file system, on processes or on
\* the registry of the guest.
ResourceActions ==
  {"File_Exists", "File_IsFile", "File_IsDirectory", "File_IsSymLink", "File_IsSameFile",
   "FileIO_Access", "File_GetTmpDir", "VixToolsGetUserTmpDir", "File_MakeTempEx2",
   "Posix_Open", "write", "File_ListDirectory", "File_SetTimes", "File_SetFilePermissions",
   "Posix_Chown", "Win32U_SetFileAttributes", "File_Rename", "File_UnlinkNoFollow",
   "File_DeleteDirectoryTree", "File_DeleteEmptyDirectory", "ProcMgr_ExecAsync",
   "ProcMgr_KillByPid", "ProcMgr_ListProcesses", "Registry_KeyExists"}

ResourceActed == \E k \in 1..Len(lastLog) : lastLog[k] \in ResourceActions

\* The launch that VixTools_RunProgram makes under the agent's own identity
\* (700-708): it takes PROCESS_CREATOR_USER_TOKEN for the token and so
\* never reaches VixToolsImpersonateUser (710).
LocalSystemLaunch ==
  /\ lastOp = "RunProgram"
  /\ platform = "win32"
  /\ lastReq.runAsLocalSystem

\* The errors a handler returns for a request it rejects before it reaches
\* VixToolsImpersonateUser.
RejectedBeforeImpersonation ==
  {VIX_E_INVALID_ARG, VIX_E_INVALID_MESSAGE_BODY, VIX_E_NOT_SUPPORTED}

\* The last dispatch called VixToolsImpersonateUser and was given VIX_OK.
ImpersonatedInCall ==
  /\ lastOp \in Dispatches
  /\ ~LocalSystemLaunch
  /\ GateOf(credential).err = VIX_OK

\* The last dispatch was refused by VixToolsImpersonateUser, or would have
\* been had its request reached the call.
ImpersonationRefused ==
  /\ lastOp \in Dispatches
  /\ ~LocalSystemLaunch
  /\ GateOf(credential).err # VIX_OK

\* Where the call switched the security context, it did so before its
\* first action.
ActedAfterSwitch ==
  \A k \in 1..Len(lastLog) :
    (lastLog[k] \in ResourceActions /\ HasLog("ImpersonateStart")) =>
      \E j \in 1..(k - 1) : lastLog[j] = "ImpersonateStart"

RecordedFor(present) ==
  /\ lastOp = "RecordExit"
  /\ (\E i \in 1..Len(lastReq.list) : lastReq.list[i].pid = lastReq.state.pid) <=> present

\* The entries of list that a call at time t does not reap.
RetainedAt(list, t) ==
  SelectSeq(list, LAMBDA e :
    e.isRunning \/ e.endTime >= t - VIX_TOOLS_EXITED_PROGRAM_REAP_TIME)

\* The registry with its first entry for the pid of state made terminal.
Terminated(list, state) ==
  LET i == CHOOSE k \in 1..Len(list) :
             /\ list[k].pid = state.pid
             /\ \A j \in 1..(k - 1) : list[j].pid # state.pid
  IN [list EXCEPT ![i] = [@ EXCEPT !.exitCode = state.exitCode,
                                   !.endTime = state.endTime,
                                   !.isRunning = FALSE]]

\* C29: recording the exit of a pid that has a registry entry changes only
\* that entry's exit code, end time and running flag, which becomes FALSE;
\* its pid, name, user and start time and every other entry that is not
\* reaped in the same call are unchanged, and no entry is added.
C29_RecordExitUpdatesEntry ==
  RecordedFor(TRUE) =>
    exitedProcessList = RetainedAt(Terminated(lastReq.list, lastReq.state), lastReq.now)

\* C30: recording the exit of a pid that has no registry entry adds exactly
\* one entry, terminal and carrying the given pid, exit code and end time,
\* after all the retained entries, which are unchanged.
C30_RecordExitAppendsEntry ==
  RecordedFor(FALSE) =>
    LET kept == RetainedAt(lastReq.list, lastReq.now)
        n == Len(exitedProcessList)
    IN /\ n = Len(kept) + 1
       /\ SubSeq(exitedProcessList, 1, n - 1) = kept
       /\ exitedProcessList[n].pid = lastReq.state.pid
       /\ exitedProcessList[n].exitCode = lastReq.state.exitCode
       /\ exitedProcessList[n].endTime = lastReq.now
       /\ ~exitedProcessList[n].isRunning

\* An exit recorded behind a retained entry while another entry is reaped.
C30_Witness ==
  /\ RecordedFor(FALSE)
  /\ Len(lastReq.list) = 2
  /\ Len(exitedProcessList) = 2
  /\ exitedProcessList[2].pid = lastReq.state.pid

(***************************************************************************)
(* Properties of the sweep before the listing.                             *)
(***************************************************************************)
\* The registry entries a reported record can stem from.
SourcesOf(r) ==
  {i \in 1..Len(exitedProcessList) :
     /\ exitedProcessList[i].pid = r.pid
     /\ exitedProcessList[i].exitCode = r.exitCode
     /\ exitedProcessList[i].endTime = r.endTime}

\* C31: a VixToolsListProcessesEx that reads the registry has swept it
\* before, in the same call, so no record of its result stems from a
\* terminal entry whose end time is older than now minus the retention
\* window.
C31_ListingFollowsSweep ==
  Listed =>
    /\ HasLog("VixToolsUpdateExitedProgramList")
    /\ \A k \in 1..Len(lastResult) :
         lastResult[k].source = "registry" =>
           /\ SourcesOf(lastResult[k]) # {}
           /\ \A i \in SourcesOf(lastResult[k]) :
                \/ exitedProcessList[i].isRunning
                \/ exitedProcessList[i].endTime >= now - VIX_TOOLS_EXITED_PROGRAM_REAP_TIME

\* A listing, made after the clock advanced, that reports a terminal entry
\* still inside the retention window.
C31_Witness ==
  /\ Listed
  /\ nticks > 0
  /\ \E k \in 1..Len(lastResult) :
       /\ lastResult[k].source = "registry"
       /\ \E i \in SourcesOf(lastResult[k]) : ~exitedProcessList[i].isRunning

(***************************************************************************)
(* Properties of the release calls.                                        *)
(***************************************************************************)
\* The last dispatch called VixToolsImpersonateUser and was given VIX_OK,
\* or an error.
ImpersonateReturned(ok) ==
  /\ lastOp \in Dispatches
  /\ CountOf("VixToolsImpersonateUser", lastCalls) > 0
  /\ (GateOf(credential).err = VIX_OK) <=> ok

\* C32: a dispatch in which VixToolsImpersonateUser succeeded calls
\* VixToolsUnimpersonateUser exactly once and then VixToolsLogoutUser
\* exactly once before it returns; a dispatch in which it failed, or was
\* not called, never calls VixToolsUnimpersonateUser.
C32_UnimpersonateThenLogoutOnce ==
  /\ ImpersonateReturned(TRUE) =>
       lastCalls = <<"VixToolsImpersonateUser", "VixToolsUnimpersonateUser",
                     "VixToolsLogoutUser">>
  /\ (lastOp \in Dispatches /\ ~ImpersonateReturned(TRUE)) =>
       CountOf("VixToolsUnimpersonateUser", lastCalls) = 0

\* A move that fails after the impersonation succeeded.
C32_Witness ==
  /\ lastOp = "MoveObject"
  /\ ImpersonateReturned(TRUE)
  /\ HasLog("ImpersonateStart")
  /\ lastErr = VIX_E_FILE_NOT_FOUND
  /\ lastCalls = <<"VixToolsImpersonateUser", "VixToolsUnimpersonateUser",
                   "VixToolsLogoutUser">>

(***************************************************************************)
(* Properties of the monitor timers.                                       *)
(***************************************************************************)
MonitorCallbacks == {"VixToolsMonitorAsyncProc", "VixToolsMonitorStartProgram"}

\* What a monitor does once it has seen its process gone.
CompletionEvents ==
  {"ProcMgr_GetExitCode", "reportProgramDoneProc", "VixToolsUpdateExitedProgramList",
   "VixToolsFreeRunProgramState", "VixToolsFreeStartProgramState", "File_UnlinkNoFollow"}

\* C33: a firing of a monitor callback that finds its process alive arms
\* exactly one new timer for the same record and does nothing else: no exit
\* status retrieval, no completion call, no registry write, no record
\* destruction.  A firing that finds the process gone arms no timer, and a
\* record whose monitor has observed the termination has no timer armed.
C33_AliveFiringOnlyRearms ==
  /\ [](\A i \in 1..Len(asyncProcs) : asyncProcs[i].freed > 0 => asyncProcs[i].timers = 0)
  /\ [][lastOp' \in MonitorCallbacks =>
          IF \E k \in 1..Len(lastLog') : lastLog'[k] \in CompletionEvents
            THEN /\ \A k \in 1..Len(lastLog') : lastLog'[k] # "g_source_attach"
                 /\ \E i \in 1..Len(asyncProcs) :
                      /\ ~asyncProcs[i].running
                      /\ asyncProcs'[i].timers = asyncProcs[i].timers - 1
                      /\ asyncProcs'[i].freed = asyncProcs[i].freed + 1
            ELSE /\ lastLog' = <<"ProcMgr_IsAsyncProcRunning", "g_source_attach">>
                 /\ \E i \in 1..Len(asyncProcs) :
                      asyncProcs[i].running /\ asyncProcs[i].timers > 0
                 /\ UNCHANGED <<asyncProcs, exitedProcessList, doneCalls>>]_vars

\* A monitor fired while its process was alive, and the record has its one
\* timer.
C33_Witness ==
  /\ lastOp \in MonitorCallbacks
  /\ lastLog = <<"ProcMgr_IsAsyncProcRunning", "g_source_attach">>
  /\ \E i \in 1..Len(asyncProcs) :
       asyncProcs[i].running /\ asyncProcs[i].timers = 1 /\ asyncProcs[i].freed = 0

(***************************************************************************)
(* Properties of the listing of a tracked launch.                          *)
(***************************************************************************)
HasEntry(list, pid) == \E k \in 1..Len(list) : list[k].pid = pid

Wanted(pid) ==
  lastReq.pids = <<>> \/ \E k \in 1..Len(lastReq.pids) : lastReq.pids[k] = pid

Reported(pid) == \E k \in 1..Len(lastResult) : lastResult[k].pid = pid

\* C34: a VixTools_StartProgram that returns VIX_OK with pid p leaves a
\* registry entry for p, the entry stays until a sweep purges it, and every
\* VixToolsListProcessesEx that succeeds while the entry is there, with no
\* filter or with a filter that holds p, reports p, also when the process
\* has exited and its monitor has not fired yet.
C34_StartedProgramIsListed ==
  /\ []((lastOp = "StartProgram" /\ lastErr = VIX_OK) =>
          HasEntry(exitedProcessList, lastResult))
  /\ [][\A k \in 1..Len(exitedProcessList) :
          exitedProcessList[k].isRunning =>
            HasEntry(exitedProcessList', exitedProcessList[k].pid)]_vars
  /\ [](Listed =>
          \A i \in 1..Len(asyncProcs) :
            (/\ asyncProcs[i].flavor = "start"
             /\ HasEntry(exitedProcessList, asyncProcs[i].pid)
             /\ Wanted(asyncProcs[i].pid)) => Reported(asyncProcs[i].pid))

\* A listing made after the process exited and before its monitor fired.
C34_Witness ==
  /\ Listed
  /\ \E i \in 1..Len(asyncProcs) :
       /\ asyncProcs[i].flavor = "start"
       /\ ~asyncProcs[i].running
       /\ asyncProcs[i].freed = 0
       /\ asyncProcs[i].exitCodeCalls = 0
       /\ Wanted(asyncProcs[i].pid)
       /\ \E k \in 1..Len(lastResult) :
            lastResult[k].pid = asyncProcs[i].pid /\ lastResult[k].source = "registry"

(***************************************************************************)
(* Properties of the life of a launch record.                              *)
(***************************************************************************)
LaunchHandlers == {"RunProgram", "StartProgram", "RunScript"}

FreeEvents == {"VixToolsFreeRunProgramState", "VixToolsFreeStartProgramState"}

\* Position in log of the first event of the set, 0 when there is none.
FirstOf(log, events) ==
  IF \E k \in 1..Len(log) : log[k] \in events
    THEN CHOOSE k \in 1..Len(log) :
           log[k] \in events /\ \A j \in 1..(k - 1) : log[j] \notin events
    ELSE 0

Frees(log) == Len(SelectSeq(log, LAMBDA e : e \in FreeEvents))

\* C35: a launch record is destroyed exactly once.  The launcher destroys
\* it when ProcMgr_ExecAsync gave no process, and otherwise hands it to the
\* timer; the monitor callback that observes the termination destroys it
\* after it made the completion call or the registry update; a destroyed
\* record has no timer armed and is never touched again.
C35_RecordDestroyedOnce ==
  /\ [](\A i \in 1..Len(asyncProcs) :
          /\ asyncProcs[i].freed <= 1
          /\ asyncProcs[i].freed = 1 =>
               (asyncProcs[i].timers = 0 /\ ~asyncProcs[i].running))
  /\ []((lastOp \in LaunchHandlers /\ HasLog("ProcMgr_ExecAsync")) =>
          Frees(lastLog) = (IF lastErr = VIX_OK THEN 0 ELSE 1))
  /\ [][\A i \in 1..Len(asyncProcs) :
          /\ asyncProcs[i].freed > 0 => asyncProcs'[i] = asyncProcs[i]
          /\ asyncProcs'[i].freed # asyncProcs[i].freed =>
               /\ lastOp' \in MonitorCallbacks
               /\ ~asyncProcs[i].running
               /\ asyncProcs[i].timers = 1
               /\ Frees(lastLog') = 1
               /\ lastLog'[Len(lastLog')] \in FreeEvents
               /\ asyncProcs[i].flavor = "start" =>
                    FirstOf(lastLog', {"VixToolsUpdateExitedProgramList"}) > 0
               /\ Len(doneCalls') > Len(doneCalls) =>
                    FirstOf(lastLog', {"reportProgramDoneProc"}) > 0
               /\ (/\ asyncProcs[i].flavor # "start"
                   /\ reportProgramDoneProc # "NULL"
                   /\ ~asyncProcs[i].returnImmediately) =>
                    Len(doneCalls') = Len(doneCalls) + 1]_vars

\* A record destroyed by its monitor after the completion call.
C35_Witness ==
  /\ lastOp = "VixToolsMonitorAsyncProc"
  /\ lastLog[Len(lastLog)] = "VixToolsFreeRunProgramState"
  /\ HasLog("reportProgramDoneProc")
  /\ \E i \in 1..Len(asyncProcs) : asyncProcs[i].freed = 1 /\ asyncProcs[i].timers = 0

(***************************************************************************)
(* Properties of the launch as a step that does not wait.                  *)
(***************************************************************************)
WaitEvents == {"ProcMgr_IsAsyncProcRunning", "ProcMgr_GetExitCode", "reportProgramDoneProc"}

\* The pids of the launches that have returned.
ReturnedPids(procs) == {procs[i].pid : i \in 1..Len(procs)}

\* The step stored an exit in the registry: an entry with an end time that
\* was not there before.
ExitStored ==
  \E k \in 1..Len(exitedProcessList') :
    /\ exitedProcessList'[k].endTime # 0
    /\ \A j \in 1..Len(exitedProcessList) : exitedProcessList[j] # exitedProcessList'[k]

\* C36: a dispatch of VixTools_RunProgram, VixTools_StartProgram or
\* VixToolsRunScript does not wait for the process it starts: it returns with
\* the process running and one timer armed, having made no completion call
\* and stored no exit.  The completion call and the exit of a launch are
\* made in a monitor timer step, for a launch whose dispatch has returned.
C36_LaunchDoesNotWait ==
  [][/\ lastOp' \in LaunchHandlers =>
          /\ doneCalls' = doneCalls
          /\ ~ExitStored
          /\ \A k \in 1..Len(lastLog') : lastLog'[k] \notin WaitEvents
          /\ \A i \in (Len(asyncProcs) + 1)..Len(asyncProcs') :
               /\ asyncProcs'[i].running
               /\ asyncProcs'[i].timers = 1
               /\ asyncProcs'[i].exitCodeCalls = 0
     /\ doneCalls' # doneCalls =>
          /\ lastOp' = "VixToolsMonitorAsyncProc"
          /\ Len(doneCalls') = Len(doneCalls) + 1
          /\ doneCalls'[Len(doneCalls')].pid \in ReturnedPids(asyncProcs)
     /\ ExitStored =>
          /\ lastOp' = "VixToolsMonitorStartProgram"
          /\ \E i \in 1..Len(asyncProcs) :
               /\ asyncProcs[i].flavor = "start"
               /\ asyncProcs'[i].freed = asyncProcs[i].freed + 1
               /\ HasEntry(exitedProcessList', asyncProcs[i].pid)]_vars

\* A launch has returned and its process runs on, nothing reported yet.
C36_Witness ==
  /\ lastOp \in LaunchHandlers
  /\ lastErr = VIX_OK
  /\ doneCalls = <<>>
  /\ asyncProcs # <<>>
  /\ asyncProcs[Len(asyncProcs)].running
  /\ asyncProcs[Len(asyncProcs)].timers = 1
  /\ asyncProcs[Len(asyncProcs)].pid = lastResult

(***************************************************************************)
(* Properties of the name and secret credential.                           *)
(***************************************************************************)
SwitchEvents == {"ImpersonateStart", "ImpersonateStartFailed"}

\* Position k of the log lies behind an event ev.
Follows(k, ev) == \E j \in 1..(k - 1) : lastLog[j] = ev

\* C37: with a name and secret credential the security context is switched
\* to the named identity only after the de-obfuscated name and secret were
\* authenticated against the identity store in the same call; when the
\* de-obfuscation or the authentication fails, no switch is made or tried
\* and no token is returned.
C37_SwitchOnlyAfterAuthentication ==
  (lastOp \in Dispatches /\ IsNamePassword(credential)) =>
    /\ \A k \in 1..Len(lastLog) :
         /\ lastLog[k] \in SwitchEvents =>
              /\ credential.deobf /\ credential.auth
              /\ Follows(k, "Auth_Opened")
         /\ lastLog[k] = "Auth_Opened" => Follows(k, "Auth_AuthenticateUser")
         /\ lastLog[k] = "Auth_AuthenticateUser" =>
              (credential.deobf /\ Follows(k, "DeObfuscate"))
    /\ (~credential.deobf \/ ~credential.auth) =>
         /\ GateOf(credential).token = TokenNull
         /\ GateOf(credential).err # VIX_OK
         /\ ~HasLog("Auth_CloseToken")
         /\ secContext = "agent"

\* A request whose secret the identity store refused.
C37_Witness ==
  /\ lastOp \in Dispatches
  /\ IsNamePassword(credential)
  /\ credential.deobf /\ ~credential.auth
  /\ HasLog("Auth_AuthenticateUser")
  /\ ~HasLog("ImpersonateStart")
  /\ lastErr = VIX_E_GUEST_USER_PERMISSIONS

(***************************************************************************)
(* Properties of the environment table.                                    *)
(***************************************************************************)
TableExists == platform # "win32" /\ userEnvironmentTable # "NULL"

\* The value a table holds for a name, if any.
ValueOf(entries, name) == IF name \in DOMAIN entries THEN <<entries[name]>> ELSE <<>>

Wrote == lastOp = "WriteVariable" /\ lastErr = VIX_OK

\* C38: while the table exists, a successful VixToolsWriteVariable of an
\* environment variable stores name and value in the table; the table's
\* value for a name changes in no other step than such a write of that name
\* or a new initialization; VixToolsReadVariable of the name returns the
\* table's value; and every launch by VixToolsRunProgramImpl or
\* VixToolsRunScript hands the child one string name=value for each entry.
C38_WrittenVariableIsReadAndPassed ==
  [][TableExists =>
       /\ Wrote' => ValueOf(environ'.table, lastReq'.valueName) = <<lastReq'.value>>
       /\ \A n \in EnvNames :
            ValueOf(environ'.table, n) # ValueOf(environ.table, n) =>
              \/ Wrote' /\ lastReq'.valueName = n
              \/ lastOp' = "VixTools_Initialize"
       /\ (lastOp' = "ReadVariable" /\ lastErr' = VIX_OK) =>
            /\ ValueOf(environ.table, lastReq'.valueName) \in {<<lastResult'.text>>, <<>>}
            /\ lastReq'.valueName \notin DOMAIN environ.table => lastResult'.text = ""
       /\ (lastOp' \in {"RunProgram", "RunScript"} /\ Len(asyncProcs') > Len(asyncProcs)) =>
            asyncProcs'[Len(asyncProcs')].envpStrings =
              {<<n, "=", environ.table[n]>> : n \in DOMAIN environ.table}]_vars

\* A program was launched with the value a client had written for a
\* variable the agent was not started with.
C38_Witness ==
  /\ TableExists
  /\ lastOp = "RunProgram"
  /\ lastErr = VIX_OK
  /\ asyncProcs # <<>>
  /\ <<"LD_LIBRARY_PATH", "=", "new">> \in asyncProcs[Len(asyncProcs)].envpStrings
  /\ environ.table["PATH"] = "user"

(***************************************************************************)
(* Properties of the file listing.                                         *)
(***************************************************************************)
\* The names at the positions from offset + index on that match the
\* pattern, all of them when there is none, in the directory's order.
Candidates(l, pattern) ==
  LET first == l.offset + l.index
      at == SelectSeq([k \in 1..Len(l.fileNameList) |-> k - 1],
                      LAMBDA n : n >= first /\ ~Skipped(l, pattern, n))
  IN [k \in 1..Len(at) |-> l.fileNameList[at[k] + 1]]

\* How many of the names, taken in order from the k-th on, fit the buffer
\* of which size bytes are reserved.
RECURSIVE Fitting(_, _, _, _)
Fitting(names, k, size, maxBufferSize) ==
  IF k > Len(names) \/ ~(size + EntrySize(names[k]) < maxBufferSize) THEN 0
  ELSE 1 + Fitting(names, k + 1, size + EntrySize(names[k]), maxBufferSize)

Min(a, b) == IF a <= b THEN a ELSE b

ListedDirectory ==
  lastOp = "ListFiles" /\ lastErr = VIX_OK /\ HasLog("File_ListDirectory")

\* C39: the entries VixToolsListFiles emits for a directory are the first
\* min(maxResults, k) names at the positions from offset + index on that
\* match the pattern (all names without a pattern), k being the number of
\* them that fit the size limit.
C39_EmittedAreFirstMatching ==
  ListedDirectory =>
    LET l == lastReq.listing
        cand == Candidates(l, lastReq.req.l2 > 0)
        k == Fitting(cand, 1, 3, l.maxBufferSize)
    IN Tail(lastResult) = SubSeq(cand, 1, Min(l.maxResults, k))
====
